---------------------------- MODULE Spec2Model ----------------------------
(***************************************************************************)
(* puffy-sysctl: name resolution (parse_mib_str, get_sysctl and the        *)
(* parse_mib functions) and the sysctl(2) call sequence of sysctl_raw,     *)
(* modelled from src/src/lib.rs.                                           *)
(*                                                                         *)
(* A name is a sequence of tokens: a word (a maximal run of characters     *)
(* other than '.' and '=') or one of the delimiters "." and "=".  Two      *)
(* words are never adjacent.  An empty segment is the absence of a word    *)
(* between two delimiters (or at either end of the name).                  *)
(***************************************************************************)
EXTENDS Integers, Sequences, FiniteSets, TLC

\* Constants declared in lib.rs (lines 29-167).
KERN_ALLOWKMEM == 54
KERN_AUDIO_RECORD == 1
KERN_MALLOC_BUCKET == 2
KERN_MALLOC_BUCKETS == 1
KERN_MALLOC_KMEMNAMES == 3
KERN_MALLOC_KMEMSTAT == 4
KERN_SEMINFO_SEMAEM == 9
KERN_SEMINFO_SEMMNI == 1
KERN_SEMINFO_SEMMNS == 2
KERN_SEMINFO_SEMMNU == 3
KERN_SEMINFO_SEMMSL == 4
KERN_SEMINFO_SEMOPM == 5
KERN_SEMINFO_SEMUME == 6
KERN_SEMINFO_SEMUSZ == 7
KERN_SEMINFO_SEMVMX == 8
KERN_SHMINFO_SHMALL == 5
KERN_SHMINFO_SHMMAX == 1
KERN_SHMINFO_SHMMIN == 2
KERN_SHMINFO_SHMMNI == 3
KERN_SHMINFO_SHMSEG == 4
KERN_TIMECOUNTER_CHOICE == 4
KERN_TIMECOUNTER_HARDWARE == 3
KERN_TIMECOUNTER_TICK == 1
KERN_TIMECOUNTER_TIMESTEPWARNINGS == 2
KERN_WATCHDOG_AUTO == 2
KERN_WATCHDOG_PERIOD == 1
KERN_WITNESS == 60
KERN_WITNESS_WATCH == 1
KERN_WXABORT == 74
DBCTL_RADIX == 1
DBCTL_MAXWIDTH == 2
DBCTL_MAXLINE == 3
DBCTL_TABSTOP == 4
DBCTL_PANIC == 5
DBCTL_CONSOLE == 6
DBCTL_LOG == 7
DBCTL_TRIGGER == 8
DBCTL_PROFILE == 9
DBCTL_MAXID == 10
FFS_CLUSTERREAD == 1
FFS_CLUSTERWRITE == 2
FFS_REALLOCBLKS == 3
FFS_ASYNCFREE == 4
FFS_MAX_SOFTDEPS == 5
FFS_SD_TICKDELAY == 6
FFS_SD_WORKLIST_PUSH == 7
FFS_SD_BLK_LIMIT_PUSH == 8
FFS_SD_INO_LIMIT_PUSH == 9
FFS_SD_BLK_LIMIT_HIT == 10
FFS_SD_INO_LIMIT_HIT == 11
FFS_SD_SYNC_LIMIT_HIT == 12
FFS_SD_INDIR_BLK_PTRS == 13
FFS_SD_INODE_BITMAP == 14
FFS_SD_DIRECT_BLK_PTRS == 15
FFS_SD_DIR_ENTRY == 16
FFS_DIRHASH_DIRSIZE == 17
FFS_DIRHASH_MAXMEM == 18
FFS_DIRHASH_MEM == 19
FFS_MAXID == 20
FUSEFS_INBUFS == 2
FUSEFS_OPENDEVS == 1
FUSEFS_POOL_NBPAGES == 4
FUSEFS_WAITBUFS == 3
FS_POSIX == 1
FS_POSIX_SETUID == 1
HW_MACHINE == 1
HW_MODEL == 2
HW_NCPU == 3
HW_BYTEORDER == 4
HW_PAGESIZE == 7
HW_DISKNAMES == 8
HW_DISKSTATS == 9
HW_DISKCOUNT == 10
HW_SENSORS == 11
HW_CPUSPEED == 12
HW_SETPERF == 13
HW_VENDOR == 14
HW_PRODUCT == 15
HW_VERSION == 16
HW_SERIALNO == 17
HW_UUID == 18
HW_PHYSMEM64 == 19
HW_USERMEM64 == 20
HW_NCPUFOUND == 21
HW_ALLOWPOWERDOWN == 22
HW_PERFPOLICY == 23
HW_SMT == 24
HW_NCPUONLINE == 25
HW_MAXID == 26
MACHDEP_ALLOWAPERTURE == 5
MACHDEP_KBDRESET == 10
MACHDEP_LIDACTION == 14
MACHDEP_PWRACTION == 18
MPLSCTL_DEFTTL == 2
MPLSCTL_MAPTTL_IP == 5
MPLSCTL_MAPTTL_IP6 == 6
MPLSCTL_MAXINKLOOP == 4
NFS_NFSSTATS == 1
NFS_NIOTHREADS == 2
PIPEXCTL_ENABLE == 1
PIPEXCTL_INQ == 2
PIPEXCTL_OUTQ == 3
VM_ANONMIN == 7
VM_LOADAVG == 2
VM_MALLOC_CONF == 12
VM_MAXSLP == 10
VM_METER == 1
VM_NKMEMPAGES == 6
VM_PSSTRINGS == 3
VM_SWAPENCRYPT == 5
VM_USPACE == 11
VM_UVMEXP == 4
VM_VNODEMIN == 9
VM_VTEXTMIN == 8
AF_INET == 2
AF_INET6 == 24
PF_INET == AF_INET
PF_INET6 == AF_INET6
CTL_DEBUG_NAME == 0
CTL_DEBUG_VALUE == 1
CTL_DEBUG_MAXID == 20

\* Constants lib.rs takes from the libc crate (use libc::*, line 21), with
\* their values on OpenBSD (sys/sysctl.h, sys/socket.h, netinet/in.h).
\* CTL_HW is exported by libc but parse_mib_hw never uses it.
CTL_KERN == 1
CTL_VM == 2
CTL_FS == 3
CTL_NET == 4
CTL_DEBUG == 5
CTL_HW == 6
CTL_MACHDEP == 7
CTL_DDB == 9
CTL_VFS == 10
CTL_MAXNAME == 12
KERN_OSTYPE == 1
KERN_OSRELEASE == 2
KERN_OSREV == 3
KERN_VERSION == 4
KERN_MAXVNODES == 5
KERN_MAXPROC == 6
KERN_MAXFILES == 7
KERN_ARGMAX == 8
KERN_SECURELVL == 9
KERN_HOSTNAME == 10
KERN_HOSTID == 11
KERN_CLOCKRATE == 12
KERN_PROF == 16
KERN_POSIX1 == 17
KERN_NGROUPS == 18
KERN_JOB_CONTROL == 19
KERN_SAVED_IDS == 20
KERN_BOOTTIME == 21
KERN_DOMAINNAME == 22
KERN_MAXPARTITIONS == 23
KERN_RAWPARTITION == 24
KERN_MAXTHREAD == 25
KERN_NTHREADS == 26
KERN_OSVERSION == 27
KERN_SOMAXCONN == 28
KERN_SOMINCONN == 29
KERN_NOSUIDCOREDUMP == 32
KERN_FSYNC == 33
KERN_SYSVMSG == 34
KERN_SYSVSEM == 35
KERN_SYSVSHM == 36
KERN_MSGBUFSIZE == 38
KERN_MALLOCSTATS == 39
KERN_CPTIME == 40
KERN_NCHSTATS == 41
KERN_FORKSTAT == 42
KERN_NSELCOLL == 43
KERN_TTY == 44
KERN_CCPU == 45
KERN_FSCALE == 46
KERN_NPROCS == 47
KERN_MSGBUF == 48
KERN_POOL == 49
KERN_STACKGAPRANDOM == 50
KERN_SYSVIPC_INFO == 51
KERN_SPLASSERT == 54
KERN_PROC_ARGS == 55
KERN_NFILES == 56
KERN_TTYCOUNT == 57
KERN_NUMVNODES == 58
KERN_MBSTAT == 59
KERN_SEMINFO == 61
KERN_SHMINFO == 62
KERN_INTRCNT == 63
KERN_WATCHDOG == 64
KERN_PROC == 66
KERN_MAXCLUSTERS == 67
KERN_EVCOUNT == 68
KERN_TIMECOUNTER == 69
KERN_MAXLOCKSPERUID == 70
KERN_CPTIME2 == 71
KERN_CACHEPCT == 72
KERN_FILE == 73
KERN_CONSDEV == 75
KERN_NETLIVELOCKS == 76
KERN_POOL_DEBUG == 77
KERN_PROC_CWD == 78
KERN_PROC_NOBROADCASTKILL == 79
KERN_PROC_VMMAP == 80
KERN_GLOBAL_PTRACE == 81
KERN_CONSBUFSIZE == 82
KERN_CONSBUF == 83
KERN_AUDIO == 84
AF_UNIX == 1
AF_LOCAL == 1
AF_IMPLINK == 3
AF_PUP == 4
AF_CHAOS == 5
AF_NS == 6
AF_ISO == 7
AF_OSI == 7
AF_ECMA == 8
AF_DATAKIT == 9
AF_CCITT == 10
AF_SNA == 11
AF_DECnet == 12
AF_DLI == 13
AF_LAT == 14
AF_HYLINK == 15
AF_APPLETALK == 16
AF_ROUTE == 17
AF_LINK == 18
AF_COIP == 20
AF_CNT == 21
AF_IPX == 23
AF_ISDN == 26
AF_E164 == 26
AF_NATM == 27
AF_ENCAP == 28
AF_SIP == 29
AF_KEY == 30
pseudo_AF_HDRCMPLT == 31
AF_BLUETOOTH == 32
AF_MPLS == 33
PF_ROUTE == 17
PF_KEY == 30
PF_MPLS == 33
PF_PIPEX == 35
IPPROTO_IP == 0
IPPROTO_ICMP == 1
IPPROTO_IPIP == 4
IPPROTO_TCP == 6
IPPROTO_UDP == 17
IPPROTO_IPV6 == 41
IPPROTO_GRE == 47
IPPROTO_ESP == 50
IPPROTO_AH == 51
IPPROTO_MOBILE == 55
IPPROTO_ICMPV6 == 58
IPPROTO_ETHERIP == 97
IPPROTO_IPCOMP == 108
IPPROTO_CARP == 112
IPPROTO_DIVERT == 258
NET_RT_DUMP == 1
NET_RT_FLAGS == 2
NET_RT_IFLIST == 3
NET_RT_STATS == 4
NET_RT_TABLE == 5
NET_RT_IFNAMES == 6

(***************************************************************************)
(* Arms of the match expressions of the parse_mib functions.  An arm       *)
(* pushes codes on the mib, may assign value_type and changeable (<<>> =   *)
(* no assignment), and then either falls out of the match (Leaf), hits     *)
(* unimplemented!() or enters a nested match on names[idx] (idx is the     *)
(* source's 0-based index).                                                *)
(***************************************************************************)
ArmRec(push, vt, ch, then, idx, sub, af, iflen) ==
    [push |-> push, vt |-> vt, ch |-> ch, then |-> then, idx |-> idx,
     sub |-> sub, af |-> af, iflen |-> iflen]

Leaf(push, vt, ch) == ArmRec(push, vt, ch, "Leaf", 0, <<>>, <<>>, <<>>)

Unimplemented == ArmRec(<<>>, <<>>, <<>>, "Unimplemented", 0, <<>>, <<>>, <<>>)

Sub(push, vt, ch, idx, sub) == ArmRec(push, vt, ch, "Match", idx, sub, <<>>, <<>>)

\* "route": the pushes, then mib.push(get_addr_family(&names[afidx])?), then
\* the nested match on names[idx]
AddrFamilyArm(push, afidx, idx, sub) ==
    ArmRec(push, <<>>, <<>>, "Match", idx, sub, <<afidx>>, <<>>)

\* "dump": the push, then if names.len() > n { push(table) } else { push(0) }
TableArm(push, n) == ArmRec(push, <<>>, <<>>, "Leaf", 0, <<>>, <<>>, <<n>>)

\* lib.rs:399-417
Match_kern_malloc ==
    ("bucket" :> Leaf(<<KERN_MALLOC_BUCKET>>, <<"Node">>, <<>>))
    @@ ("buckets" :> Leaf(<<KERN_MALLOC_BUCKETS>>, <<"SysString">>, <<>>))
    @@ ("kmemnames" :> Leaf(<<KERN_MALLOC_KMEMNAMES>>, <<"SysString">>, <<>>))
    @@ ("kmemstat" :> Leaf(<<KERN_MALLOC_KMEMSTAT>>, <<"Node">>, <<>>))

\* lib.rs:422-436
Match_kern_nchstats ==
    ("good_hits" :> Unimplemented)
    @@ ("negative_hits" :> Unimplemented)
    @@ ("bad_hits" :> Unimplemented)
    @@ ("false_hits" :> Unimplemented)
    @@ ("misses" :> Unimplemented)
    @@ ("long_names" :> Unimplemented)
    @@ ("pass2" :> Unimplemented)
    @@ ("2passes" :> Unimplemented)
    @@ ("ncs_revhits" :> Unimplemented)
    @@ ("ncs_revmiss" :> Unimplemented)
    @@ ("ncs_dothits" :> Unimplemented)
    @@ ("nch_dotdothits" :> Unimplemented)

\* lib.rs:440-450
Match_kern_forkstat ==
    ("forks" :> Unimplemented)
    @@ ("vforks" :> Unimplemented)
    @@ ("tforks" :> Unimplemented)
    @@ ("kthreads" :> Unimplemented)
    @@ ("fork_pages" :> Unimplemented)
    @@ ("vfork_pages" :> Unimplemented)
    @@ ("tfork_pages" :> Unimplemented)
    @@ ("kthread_pages" :> Unimplemented)

\* lib.rs:455-461
Match_kern_tty ==
    ("tk_nin" :> Unimplemented)
    @@ ("tk_nout" :> Unimplemented)
    @@ ("tk_rawcc" :> Unimplemented)
    @@ ("tk_cancc" :> Unimplemented)

\* lib.rs:495-517
Match_kern_seminfo ==
    ("semmni" :> Leaf(<<KERN_SEMINFO_SEMMNI>>, <<>>, <<TRUE>>))
    @@ ("semmns" :> Leaf(<<KERN_SEMINFO_SEMMNS>>, <<>>, <<TRUE>>))
    @@ ("semmsl" :> Leaf(<<KERN_SEMINFO_SEMMSL>>, <<>>, <<TRUE>>))
    @@ ("semopm" :> Leaf(<<KERN_SEMINFO_SEMOPM>>, <<>>, <<TRUE>>))
    @@ ("semume" :> Leaf(<<KERN_SEMINFO_SEMUME>>, <<>>, <<>>))
    @@ ("semusz" :> Leaf(<<KERN_SEMINFO_SEMUSZ>>, <<>>, <<>>))
    @@ ("semvmx" :> Leaf(<<KERN_SEMINFO_SEMVMX>>, <<>>, <<>>))
    @@ ("semaem" :> Leaf(<<KERN_SEMINFO_SEMAEM>>, <<>>, <<>>))

\* lib.rs:521-543
Match_kern_shminfo ==
    ("shmmax" :> Leaf(<<KERN_SHMINFO_SHMMAX>>, <<>>, <<TRUE>>))
    @@ ("shmmin" :> Leaf(<<KERN_SHMINFO_SHMMIN>>, <<>>, <<TRUE>>))
    @@ ("shmmni" :> Leaf(<<KERN_SHMINFO_SHMMNI>>, <<>>, <<TRUE>>))
    @@ ("shmseg" :> Leaf(<<KERN_SHMINFO_SHMSEG>>, <<>>, <<TRUE>>))
    @@ ("shmall" :> Leaf(<<KERN_SHMINFO_SHMALL>>, <<>>, <<TRUE>>))

\* lib.rs:552-556
Match_kern_watchdog ==
    ("period" :> Leaf(<<KERN_WATCHDOG_PERIOD>>, <<>>, <<>>))
    @@ ("auto" :> Leaf(<<KERN_WATCHDOG_AUTO>>, <<>>, <<>>))

\* lib.rs:561-564
Match_kern_proc ==
    ("" :> Unimplemented)

\* lib.rs:574-590
Match_kern_timecounter ==
    ("tick" :> Leaf(<<KERN_TIMECOUNTER_TICK>>, <<>>, <<>>))
    @@ ("timestepwarnings" :> Leaf(<<KERN_TIMECOUNTER_TIMESTEPWARNINGS>>, <<>>, <<TRUE>>))
    @@ ("hardware" :> Leaf(<<KERN_TIMECOUNTER_HARDWARE>>, <<"SysString">>, <<TRUE>>))
    @@ ("choice" :> Leaf(<<KERN_TIMECOUNTER_CHOICE>>, <<"SysString">>, <<>>))

\* lib.rs:629-635
Match_kern_audio ==
    ("record" :> Leaf(<<KERN_AUDIO_RECORD>>, <<>>, <<TRUE>>))

\* lib.rs:308-638
Match_kern ==
    ("ostype" :> Leaf(<<KERN_OSTYPE>>, <<"SysString">>, <<>>))
    @@ ("osrelease" :> Leaf(<<KERN_OSRELEASE>>, <<"SysString">>, <<>>))
    @@ ("osrevision" :> Leaf(<<KERN_OSREV>>, <<>>, <<>>))
    @@ ("version" :> Leaf(<<KERN_VERSION>>, <<"SysString">>, <<>>))
    @@ ("maxvnodes" :> Leaf(<<KERN_MAXVNODES>>, <<>>, <<TRUE>>))
    @@ ("maxproc" :> Leaf(<<KERN_MAXPROC>>, <<>>, <<TRUE>>))
    @@ ("maxfiles" :> Leaf(<<KERN_MAXFILES>>, <<>>, <<TRUE>>))
    @@ ("argmax" :> Leaf(<<KERN_ARGMAX>>, <<>>, <<>>))
    @@ ("securelevel" :> Leaf(<<KERN_SECURELVL>>, <<>>, <<TRUE>>))
    @@ ("hostname" :> Leaf(<<KERN_HOSTNAME>>, <<"SysString">>, <<TRUE>>))
    @@ ("hostid" :> Leaf(<<KERN_HOSTID>>, <<>>, <<TRUE>>))
    @@ ("clockrate" :> Leaf(<<KERN_CLOCKRATE>>, <<"SysStruct">>, <<>>))
    @@ ("profiling" :> Leaf(<<KERN_PROF>>, <<"Node">>, <<>>))
    @@ ("posix1version" :> Leaf(<<KERN_POSIX1>>, <<>>, <<>>))
    @@ ("ngroups" :> Leaf(<<KERN_NGROUPS>>, <<>>, <<>>))
    @@ ("job_control" :> Leaf(<<KERN_JOB_CONTROL>>, <<>>, <<>>))
    @@ ("saved_ids" :> Leaf(<<KERN_SAVED_IDS>>, <<>>, <<>>))
    @@ ("boottime" :> Leaf(<<KERN_BOOTTIME>>, <<"SysStruct">>, <<>>))
    @@ ("domainname" :> Leaf(<<KERN_DOMAINNAME>>, <<"SysString">>, <<TRUE>>))
    @@ ("maxpartitions" :> Leaf(<<KERN_MAXPARTITIONS>>, <<>>, <<>>))
    @@ ("rawpartition" :> Leaf(<<KERN_RAWPARTITION>>, <<>>, <<>>))
    @@ ("maxthread" :> Leaf(<<KERN_MAXTHREAD>>, <<>>, <<TRUE>>))
    @@ ("nthreads" :> Leaf(<<KERN_NTHREADS>>, <<>>, <<>>))
    @@ ("osversion" :> Leaf(<<KERN_OSVERSION>>, <<"SysString">>, <<>>))
    @@ ("somaxconn" :> Leaf(<<KERN_SOMAXCONN>>, <<>>, <<TRUE>>))
    @@ ("sominconn" :> Leaf(<<KERN_SOMINCONN>>, <<>>, <<TRUE>>))
    @@ ("nosuidcoredump" :> Leaf(<<KERN_NOSUIDCOREDUMP>>, <<>>, <<TRUE>>))
    @@ ("fsync" :> Leaf(<<KERN_FSYNC>>, <<>>, <<>>))
    @@ ("sysvmsg" :> Leaf(<<KERN_SYSVMSG>>, <<>>, <<>>))
    @@ ("sysvsem" :> Leaf(<<KERN_SYSVSEM>>, <<>>, <<>>))
    @@ ("sysvshm" :> Leaf(<<KERN_SYSVSHM>>, <<>>, <<>>))
    @@ ("msgbufsize" :> Leaf(<<KERN_MSGBUFSIZE>>, <<>>, <<>>))
    @@ ("malloc" :> Sub(<<KERN_MALLOCSTATS>>, <<>>, <<>>, 1, Match_kern_malloc))
    @@ ("cp_time" :> Leaf(<<KERN_CPTIME>>, <<>>, <<>>))
    @@ ("nchstats" :> Sub(<<KERN_NCHSTATS>>, <<>>, <<>>, 1, Match_kern_nchstats))
    @@ ("forkstat" :> Sub(<<KERN_FORKSTAT>>, <<>>, <<>>, 1, Match_kern_forkstat))
    @@ ("nselcoll" :> Leaf(<<KERN_NSELCOLL>>, <<>>, <<>>))
    @@ ("tty" :> Sub(<<KERN_TTY>>, <<>>, <<>>, 1, Match_kern_tty))
    @@ ("ccpu" :> Leaf(<<KERN_CCPU>>, <<>>, <<>>))
    @@ ("fscale" :> Leaf(<<KERN_FSCALE>>, <<>>, <<>>))
    @@ ("nprocs" :> Leaf(<<KERN_NPROCS>>, <<>>, <<>>))
    @@ ("msgbuf" :> Leaf(<<KERN_MSGBUF>>, <<>>, <<>>))
    @@ ("pool" :> Leaf(<<KERN_POOL>>, <<>>, <<>>))
    @@ ("stackgap_random" :> Leaf(<<KERN_STACKGAPRANDOM>>, <<>>, <<>>))
    @@ ("sysvipc_info" :> Leaf(<<KERN_SYSVIPC_INFO>>, <<>>, <<>>))
    @@ ("allowkmem" :> Leaf(<<KERN_ALLOWKMEM>>, <<>>, <<TRUE>>))
    @@ ("splassert" :> Leaf(<<KERN_SPLASSERT>>, <<>>, <<TRUE>>))
    @@ ("procargs" :> Leaf(<<KERN_PROC_ARGS>>, <<"Node">>, <<>>))
    @@ ("nfiles" :> Leaf(<<KERN_NFILES>>, <<>>, <<>>))
    @@ ("ttycount" :> Leaf(<<KERN_TTYCOUNT>>, <<>>, <<>>))
    @@ ("numvnodes" :> Leaf(<<KERN_NUMVNODES>>, <<>>, <<>>))
    @@ ("mbstat" :> Leaf(<<KERN_MBSTAT>>, <<"SysStruct">>, <<>>))
    @@ ("witness" :> Leaf(<<KERN_WITNESS>>, <<"Node">>, <<>>))
    @@ ("seminfo" :> Sub(<<KERN_SEMINFO>>, <<>>, <<>>, 1, Match_kern_seminfo))
    @@ ("shminfo" :> Sub(<<KERN_SHMINFO>>, <<>>, <<>>, 1, Match_kern_shminfo))
    @@ ("intrcnt" :> Leaf(<<KERN_INTRCNT>>, <<"Node">>, <<>>))
    @@ ("watchdog" :> Sub(<<KERN_WATCHDOG>>, <<>>, <<TRUE>>, 1, Match_kern_watchdog))
    @@ ("proc" :> Sub(<<KERN_PROC>>, <<>>, <<>>, 1, Match_kern_proc))
    @@ ("maxclusters" :> Leaf(<<KERN_MAXCLUSTERS>>, <<>>, <<TRUE>>))
    @@ ("evcount" :> Leaf(<<KERN_EVCOUNT>>, <<>>, <<>>))
    @@ ("timecounter" :> Sub(<<KERN_TIMECOUNTER>>, <<>>, <<>>, 1, Match_kern_timecounter))
    @@ ("maxlocksperuid" :> Leaf(<<KERN_MAXLOCKSPERUID>>, <<>>, <<TRUE>>))
    @@ ("cp_time2" :> Leaf(<<KERN_CPTIME2>>, <<"UInt64Slice">>, <<>>))
    @@ ("bufcachepercent" :> Leaf(<<KERN_CACHEPCT>>, <<>>, <<TRUE>>))
    @@ ("file" :> Leaf(<<KERN_FILE>>, <<"SysStruct">>, <<>>))
    @@ ("wxabort" :> Leaf(<<KERN_WXABORT>>, <<>>, <<TRUE>>))
    @@ ("consdev" :> Leaf(<<KERN_CONSDEV>>, <<"DevT">>, <<>>))
    @@ ("netlivelocks" :> Leaf(<<KERN_NETLIVELOCKS>>, <<>>, <<>>))
    @@ ("pool_debug" :> Leaf(<<KERN_POOL_DEBUG>>, <<>>, <<>>))
    @@ ("pool_cwd" :> Leaf(<<KERN_PROC_CWD>>, <<>>, <<>>))
    @@ ("proc_nobroadcastkill" :> Leaf(<<KERN_PROC_NOBROADCASTKILL>>, <<>>, <<>>))
    @@ ("proc_vmmap" :> Leaf(<<KERN_PROC_VMMAP>>, <<>>, <<>>))
    @@ ("global_ptrace" :> Leaf(<<KERN_GLOBAL_PTRACE>>, <<>>, <<>>))
    @@ ("" :> Leaf(<<KERN_CONSBUFSIZE>>, <<>>, <<>>))
    @@ ("" :> Leaf(<<KERN_CONSBUF>>, <<>>, <<>>))
    @@ ("audio" :> Sub(<<KERN_AUDIO>>, <<>>, <<>>, 1, Match_kern_audio))

\* lib.rs:650-693
Match_vm ==
    ("vmmeter" :> Leaf(<<VM_METER>>, <<"SysStruct">>, <<>>))
    @@ ("loadavg" :> Leaf(<<VM_LOADAVG>>, <<"SysStruct">>, <<>>))
    @@ ("psstrings" :> Leaf(<<VM_PSSTRINGS>>, <<"SysStruct">>, <<>>))
    @@ ("uvmexp" :> Leaf(<<VM_UVMEXP>>, <<"SysStruct">>, <<>>))
    @@ ("swapencrypt" :> Leaf(<<VM_SWAPENCRYPT>>, <<"SysStruct">>, <<TRUE>>))
    @@ ("nkmempages" :> Leaf(<<VM_NKMEMPAGES>>, <<>>, <<>>))
    @@ ("anonmin" :> Leaf(<<VM_ANONMIN>>, <<>>, <<TRUE>>))
    @@ ("vtextmin" :> Leaf(<<VM_VTEXTMIN>>, <<>>, <<TRUE>>))
    @@ ("vnodemin" :> Leaf(<<VM_VNODEMIN>>, <<>>, <<TRUE>>))
    @@ ("maxslp" :> Leaf(<<VM_MAXSLP>>, <<>>, <<>>))
    @@ ("uspace" :> Leaf(<<VM_USPACE>>, <<>>, <<>>))
    @@ ("malloc_conf" :> Leaf(<<VM_MALLOC_CONF>>, <<"SysString">>, <<TRUE>>))

\* lib.rs:706-709
Match_fs_posix ==
    ("setuid" :> Leaf(<<FS_POSIX_SETUID>>, <<>>, <<>>))

\* lib.rs:703-712
Match_fs ==
    ("posix" :> Sub(<<FS_POSIX>>, <<>>, <<>>, 1, Match_fs_posix))

\* lib.rs:730-750
Match_net_route ==
    ("dump" :> TableArm(<<NET_RT_DUMP>>, 4))
    @@ ("flags" :> Leaf(<<NET_RT_FLAGS>>, <<>>, <<>>))
    @@ ("iflist" :> Leaf(<<NET_RT_IFLIST>>, <<>>, <<>>))
    @@ ("ifnames" :> Leaf(<<NET_RT_IFNAMES>>, <<>>, <<>>))
    @@ ("stats" :> Leaf(<<NET_RT_STATS>>, <<>>, <<>>))
    @@ ("table" :> Leaf(<<NET_RT_TABLE>>, <<>>, <<>>))

\* lib.rs:759-763
Match_net_inet_ah ==
    ("enable" :> Leaf(<<1>>, <<>>, <<>>))
    @@ ("stats" :> Leaf(<<2>>, <<>>, <<>>))

\* lib.rs:767-771
Match_net_inet_bpf ==
    ("bufsize" :> Leaf(<<1>>, <<>>, <<>>))
    @@ ("maxbufsize" :> Leaf(<<2>>, <<>>, <<>>))

\* lib.rs:775-781
Match_net_inet_carp ==
    ("allow" :> Leaf(<<1>>, <<>>, <<>>))
    @@ ("log" :> Leaf(<<3>>, <<>>, <<>>))
    @@ ("preempt" :> Leaf(<<2>>, <<>>, <<>>))
    @@ ("stats" :> Leaf(<<4>>, <<>>, <<>>))

\* lib.rs:785-790
Match_net_inet_divert ==
    ("recvspace" :> Leaf(<<1>>, <<>>, <<>>))
    @@ ("sendspace" :> Leaf(<<2>>, <<>>, <<>>))
    @@ ("stats" :> Leaf(<<3>>, <<>>, <<>>))

\* lib.rs:794-800
Match_net_inet_esp ==
    ("enable" :> Leaf(<<1>>, <<>>, <<>>))
    @@ ("udpencap" :> Leaf(<<2>>, <<>>, <<>>))
    @@ ("udpencap_port" :> Leaf(<<3>>, <<>>, <<>>))
    @@ ("stats" :> Leaf(<<4>>, <<>>, <<>>))

\* lib.rs:804-808
Match_net_inet_etherip ==
    ("allow" :> Leaf(<<1>>, <<>>, <<>>))
    @@ ("stats" :> Leaf(<<2>>, <<>>, <<>>))

\* lib.rs:812-816
Match_net_inet_gre ==
    ("allow" :> Leaf(<<1>>, <<>>, <<>>))
    @@ ("wccp" :> Leaf(<<2>>, <<>>, <<>>))

\* lib.rs:820-833
Match_net_inet_icmp ==
    ("bmcastecho" :> Leaf(<<2>>, <<>>, <<>>))
    @@ ("errppslimit" :> Leaf(<<3>>, <<>>, <<>>))
    @@ ("maskrepl" :> Leaf(<<1>>, <<>>, <<>>))
    @@ ("rediraccept" :> Leaf(<<4>>, <<>>, <<>>))
    @@ ("redirtimeout" :> Leaf(<<5>>, <<>>, <<>>))
    @@ ("stats" :> Leaf(<<7>>, <<"SysStruct">>, <<FALSE>>))
    @@ ("tstamprepl" :> Leaf(<<6>>, <<>>, <<>>))

\* lib.rs:846-852
Match_net_inet_ip_ifq ==
    ("congestion" :> Leaf(<<4>>, <<>>, <<>>))
    @@ ("drops" :> Leaf(<<3>>, <<>>, <<>>))
    @@ ("len" :> Leaf(<<1>>, <<>>, <<>>))
    @@ ("maxlen" :> Leaf(<<2>>, <<>>, <<>>))

\* lib.rs:837-895
Match_net_inet_ip ==
    ("arpdown" :> Leaf(<<40>>, <<>>, <<>>))
    @@ ("arptimeout" :> Leaf(<<39>>, <<>>, <<>>))
    @@ ("directed-broadcast" :> Leaf(<<6>>, <<>>, <<>>))
    @@ ("encdebug" :> Leaf(<<12>>, <<>>, <<>>))
    @@ ("forwarding" :> Leaf(<<1>>, <<>>, <<>>))
    @@ ("ifq" :> Sub(<<30>>, <<"Node">>, <<>>, 3, Match_net_inet_ip_ifq))
    @@ ("ipsec-allocs" :> Leaf(<<18>>, <<>>, <<>>))
    @@ ("ipsec-auth-alg" :> Leaf(<<26>>, <<"SysString">>, <<>>))
    @@ ("ipsec-bytes" :> Leaf(<<20>>, <<>>, <<>>))
    @@ ("ipsec-comp-alg" :> Leaf(<<29>>, <<"SysString">>, <<>>))
    @@ ("ipsec-enc-alg" :> Leaf(<<25>>, <<"SysString">>, <<>>))
    @@ ("ipsec-expire-acquire" :> Leaf(<<14>>, <<>>, <<>>))
    @@ ("ipsec-firstuse" :> Leaf(<<24>>, <<>>, <<>>))
    @@ ("ipsec-invalid-life" :> Leaf(<<15>>, <<>>, <<>>))
    @@ ("ipsec-pfs" :> Leaf(<<16>>, <<>>, <<>>))
    @@ ("ipsec-soft-allocs" :> Leaf(<<17>>, <<>>, <<>>))
    @@ ("ipsec-soft-bytes" :> Leaf(<<19>>, <<>>, <<>>))
    @@ ("ipsec-soft-firstuse" :> Leaf(<<23>>, <<>>, <<>>))
    @@ ("ipsec-soft-timeout" :> Leaf(<<22>>, <<>>, <<>>))
    @@ ("ipsec-timeout" :> Leaf(<<21>>, <<>>, <<>>))
    @@ ("maxqueue" :> Leaf(<<11>>, <<>>, <<>>))
    @@ ("mforwarding" :> Leaf(<<31>>, <<>>, <<>>))
    @@ ("mtudisc" :> Leaf(<<27>>, <<>>, <<>>))
    @@ ("mtudisctimeout" :> Leaf(<<28>>, <<>>, <<>>))
    @@ ("multipath" :> Leaf(<<32>>, <<>>, <<>>))
    @@ ("portfirst" :> Leaf(<<7>>, <<>>, <<>>))
    @@ ("pirthifirst" :> Leaf(<<9>>, <<>>, <<>>))
    @@ ("porthilast" :> Leaf(<<10>>, <<>>, <<>>))
    @@ ("portlast" :> Leaf(<<8>>, <<>>, <<>>))
    @@ ("redirect" :> Leaf(<<2>>, <<>>, <<>>))
    @@ ("sourceroute" :> Leaf(<<5>>, <<>>, <<>>))
    @@ ("stats" :> Leaf(<<33>>, <<"SysStruct">>, <<FALSE>>))
    @@ ("ttl" :> Leaf(<<3>>, <<>>, <<>>))

\* lib.rs:899-903
Match_net_inet_ipcomp ==
    ("enable" :> Leaf(<<1>>, <<>>, <<>>))
    @@ ("stats" :> Leaf(<<2>>, <<>>, <<>>))

\* lib.rs:907-911
Match_net_inet_ipip ==
    ("allow" :> Leaf(<<1>>, <<>>, <<>>))
    @@ ("stats" :> Leaf(<<2>>, <<>>, <<>>))

\* lib.rs:915-918
Match_net_inet_mobileip ==
    ("allow" :> Leaf(<<1>>, <<>>, <<>>))

\* lib.rs:922-963
Match_net_inet_tcp ==
    ("ackonpush" :> Leaf(<<13>>, <<>>, <<>>))
    @@ ("always_keepalive" :> Leaf(<<16>>, <<>>, <<>>))
    @@ ("baddynamic" :> Leaf(<<6>>, <<"UInt32Slice">>, <<>>))
    @@ ("drop" :> Leaf(<<19>>, <<>>, <<>>))
    @@ ("ecn" :> Leaf(<<14>>, <<>>, <<>>))
    @@ ("ident" :> Leaf(<<9>>, <<"SysStruct">>, <<FALSE>>))
    @@ ("keepidle" :> Leaf(<<3>>, <<>>, <<>>))
    @@ ("keepinittime" :> Leaf(<<2>>, <<>>, <<>>))
    @@ ("keepintvl" :> Leaf(<<4>>, <<>>, <<>>))
    @@ ("mssdflt" :> Leaf(<<11>>, <<>>, <<>>))
    @@ ("reasslimit" :> Leaf(<<18>>, <<>>, <<>>))
    @@ ("rfc1323" :> Leaf(<<1>>, <<>>, <<>>))
    @@ ("rfc3390" :> Leaf(<<17>>, <<>>, <<>>))
    @@ ("rootonly" :> Leaf(<<24>>, <<"UInt32Slice">>, <<>>))
    @@ ("rstppslimit" :> Leaf(<<12>>, <<>>, <<>>))
    @@ ("sack" :> Leaf(<<10>>, <<>>, <<>>))
    @@ ("sackholelimit" :> Leaf(<<20>>, <<>>, <<>>))
    @@ ("slowhz" :> Leaf(<<5>>, <<>>, <<FALSE>>))
    @@ ("stats" :> Leaf(<<21>>, <<"SysStruct">>, <<>>))
    @@ ("synbucketlimit" :> Leaf(<<16>>, <<>>, <<>>))
    @@ ("syncachelimit" :> Leaf(<<15>>, <<>>, <<>>))
    @@ ("synhashsize" :> Leaf(<<25>>, <<>>, <<>>))
    @@ ("synuselimit" :> Leaf(<<23>>, <<>>, <<>>))

\* lib.rs:967-985
Match_net_inet_udp ==
    ("baddynamic" :> Leaf(<<2>>, <<"UInt32Slice">>, <<>>))
    @@ ("checksum" :> Leaf(<<1>>, <<>>, <<>>))
    @@ ("recvspace" :> Leaf(<<3>>, <<>>, <<>>))
    @@ ("rootonly" :> Leaf(<<6>>, <<"UInt32Slice">>, <<>>))
    @@ ("sendspace" :> Leaf(<<4>>, <<>>, <<>>))
    @@ ("stats" :> Leaf(<<5>>, <<"SysStruct">>, <<FALSE>>))

\* lib.rs:756-988
Match_net_inet ==
    ("ah" :> Sub(<<IPPROTO_AH>>, <<>>, <<>>, 2, Match_net_inet_ah))
    @@ ("bpf" :> Sub(<<pseudo_AF_HDRCMPLT>>, <<>>, <<>>, 2, Match_net_inet_bpf))
    @@ ("carp" :> Sub(<<IPPROTO_CARP>>, <<>>, <<>>, 2, Match_net_inet_carp))
    @@ ("divert" :> Sub(<<IPPROTO_DIVERT>>, <<>>, <<>>, 2, Match_net_inet_divert))
    @@ ("esp" :> Sub(<<IPPROTO_ESP>>, <<>>, <<>>, 2, Match_net_inet_esp))
    @@ ("etherip" :> Sub(<<IPPROTO_ETHERIP>>, <<>>, <<>>, 2, Match_net_inet_etherip))
    @@ ("gre" :> Sub(<<IPPROTO_GRE>>, <<>>, <<>>, 2, Match_net_inet_gre))
    @@ ("icmp" :> Sub(<<IPPROTO_ICMP>>, <<>>, <<>>, 2, Match_net_inet_icmp))
    @@ ("ip" :> Sub(<<IPPROTO_IP>>, <<>>, <<>>, 2, Match_net_inet_ip))
    @@ ("ipcomp" :> Sub(<<IPPROTO_IPCOMP>>, <<>>, <<>>, 2, Match_net_inet_ipcomp))
    @@ ("ipip" :> Sub(<<IPPROTO_IPIP>>, <<>>, <<>>, 2, Match_net_inet_ipip))
    @@ ("mobileip" :> Sub(<<IPPROTO_MOBILE>>, <<>>, <<>>, 2, Match_net_inet_mobileip))
    @@ ("tcp" :> Sub(<<IPPROTO_TCP>>, <<>>, <<>>, 2, Match_net_inet_tcp))
    @@ ("udp" :> Sub(<<IPPROTO_UDP>>, <<>>, <<>>, 2, Match_net_inet_udp))

\* lib.rs:996-1001
Match_net_inet6_divert ==
    ("recvspace" :> Leaf(<<1>>, <<>>, <<>>))
    @@ ("sendspace" :> Leaf(<<2>>, <<>>, <<>>))
    @@ ("stats" :> Leaf(<<3>>, <<>>, <<>>))

\* lib.rs:1005-1016
Match_net_inet6_icmp6 ==
    ("errppslimit" :> Leaf(<<14>>, <<>>, <<>>))
    @@ ("mtudisc_hiwat" :> Leaf(<<16>>, <<>>, <<>>))
    @@ ("mtudisc_lowat" :> Leaf(<<17>>, <<>>, <<>>))
    @@ ("nd6_debug" :> Leaf(<<18>>, <<>>, <<>>))
    @@ ("nd6_delay" :> Leaf(<<8>>, <<>>, <<>>))
    @@ ("nd6_maxnudhint" :> Leaf(<<15>>, <<>>, <<>>))
    @@ ("nd6_maxtries" :> Leaf(<<10>>, <<>>, <<>>))
    @@ ("nd6_umaxtries" :> Leaf(<<9>>, <<>>, <<>>))
    @@ ("redirtimeout" :> Leaf(<<17>>, <<>>, <<>>))

\* lib.rs:1020-1049
Match_net_inet6_ip6 ==
    ("auto_flowlabel" :> Leaf(<<17>>, <<>>, <<>>))
    @@ ("dad_count" :> Leaf(<<16>>, <<>>, <<>>))
    @@ ("dad_pending" :> Leaf(<<49>>, <<>>, <<>>))
    @@ ("defmcasthlim" :> Leaf(<<18>>, <<>>, <<>>))
    @@ ("forwarding" :> Leaf(<<1>>, <<>>, <<>>))
    @@ ("hdrnestlimit" :> Leaf(<<15>>, <<>>, <<>>))
    @@ ("hlim" :> Leaf(<<3>>, <<>>, <<>>))
    @@ ("ifq" :> Leaf(<<51>>, <<"Node">>, <<FALSE>>))
    @@ ("log_interval" :> Leaf(<<14>>, <<>>, <<>>))
    @@ ("maxdynroutes" :> Leaf(<<48>>, <<>>, <<>>))
    @@ ("maxfragpackets" :> Leaf(<<9>>, <<>>, <<>>))
    @@ ("maxfrags" :> Leaf(<<41>>, <<>>, <<>>))
    @@ ("mforwarding" :> Leaf(<<42>>, <<>>, <<>>))
    @@ ("mtudisctimeout" :> Leaf(<<50>>, <<>>, <<>>))
    @@ ("multicast_mtudisc" :> Leaf(<<44>>, <<>>, <<>>))
    @@ ("multipath" :> Leaf(<<43>>, <<>>, <<>>))
    @@ ("neighborgcthresh" :> Leaf(<<45>>, <<>>, <<>>))
    @@ ("redirect" :> Leaf(<<2>>, <<>>, <<>>))
    @@ ("soiikey" :> Leaf(<<54>>, <<"UInt8Slice">>, <<>>))
    @@ ("use_deprecated" :> Leaf(<<21>>, <<>>, <<>>))

\* lib.rs:993-1052
Match_net_inet6 ==
    ("divert" :> Sub(<<IPPROTO_DIVERT>>, <<>>, <<>>, 2, Match_net_inet6_divert))
    @@ ("icmp6" :> Sub(<<IPPROTO_ICMPV6>>, <<>>, <<>>, 2, Match_net_inet6_icmp6))
    @@ ("ip6" :> Sub(<<IPPROTO_IPV6>>, <<>>, <<>>, 2, Match_net_inet6_ip6))

\* lib.rs:1056-1060
Match_net_key ==
    ("sadb_dump" :> Leaf(<<1>>, <<>>, <<>>))
    @@ ("spd_dump" :> Leaf(<<2>>, <<>>, <<>>))

\* lib.rs:1065-1081
Match_net_mpls ==
    ("mapttl_ip" :> Leaf(<<MPLSCTL_MAPTTL_IP>>, <<>>, <<>>))
    @@ ("mapttl_ip6" :> Leaf(<<MPLSCTL_MAPTTL_IP6>>, <<>>, <<>>))
    @@ ("maxloop_inkernel" :> Leaf(<<MPLSCTL_MAXINKLOOP>>, <<>>, <<>>))
    @@ ("ttl" :> Leaf(<<MPLSCTL_DEFTTL>>, <<>>, <<>>))

\* lib.rs:1096-1102
Match_net_pipex_inq_ifq ==
    ("congestion" :> Leaf(<<4>>, <<>>, <<>>))
    @@ ("drops" :> Leaf(<<3>>, <<>>, <<>>))
    @@ ("len" :> Leaf(<<1>>, <<>>, <<>>))
    @@ ("maxlen" :> Leaf(<<2>>, <<>>, <<>>))

\* lib.rs:1092-1105
Match_net_pipex_inq ==
    ("ifq" :> Sub(<<30>>, <<"Node">>, <<>>, 3, Match_net_pipex_inq_ifq))

\* lib.rs:1113-1119
Match_net_pipex_outq_ifq ==
    ("congestion" :> Leaf(<<4>>, <<>>, <<>>))
    @@ ("drops" :> Leaf(<<3>>, <<>>, <<>>))
    @@ ("len" :> Leaf(<<1>>, <<>>, <<>>))
    @@ ("maxlen" :> Leaf(<<2>>, <<>>, <<>>))

\* lib.rs:1109-1122
Match_net_pipex_outq ==
    ("ifq" :> Sub(<<30>>, <<"Node">>, <<>>, 3, Match_net_pipex_outq_ifq))

\* lib.rs:1085-1125
Match_net_pipex ==
    ("enable" :> Leaf(<<PIPEXCTL_ENABLE>>, <<>>, <<TRUE>>))
    @@ ("inq" :> Sub(<<PIPEXCTL_INQ>>, <<>>, <<>>, 2, Match_net_pipex_inq))
    @@ ("outq" :> Sub(<<PIPEXCTL_OUTQ>>, <<>>, <<>>, 3, Match_net_pipex_outq))

\* lib.rs:724-1128
Match_net ==
    ("route" :> AddrFamilyArm(<<PF_ROUTE, 0>>, 2, 3, Match_net_route))
    @@ ("inet" :> Sub(<<PF_INET>>, <<>>, <<TRUE>>, 1, Match_net_inet))
    @@ ("inet6" :> Sub(<<PF_INET6>>, <<>>, <<TRUE>>, 1, Match_net_inet6))
    @@ ("key" :> Sub(<<PF_KEY>>, <<>>, <<>>, 1, Match_net_key))
    @@ ("mpls" :> Sub(<<PF_MPLS>>, <<>>, <<TRUE>>, 1, Match_net_mpls))
    @@ ("pipex" :> Sub(<<PF_PIPEX>>, <<>>, <<>>, 1, Match_net_pipex))

\* lib.rs:1140-1144
Match_debug ==
    ("name" :> Leaf(<<CTL_DEBUG_NAME>>, <<>>, <<>>))
    @@ ("value" :> Leaf(<<CTL_DEBUG_VALUE>>, <<>>, <<>>))

\* lib.rs:1156-1230
Match_hw ==
    ("machine" :> Leaf(<<HW_MACHINE>>, <<"SysString">>, <<>>))
    @@ ("model" :> Leaf(<<HW_MODEL>>, <<"SysString">>, <<>>))
    @@ ("ncpu" :> Leaf(<<HW_NCPU>>, <<>>, <<>>))
    @@ ("byteorder" :> Leaf(<<HW_BYTEORDER>>, <<>>, <<>>))
    @@ ("pagesize" :> Leaf(<<HW_PAGESIZE>>, <<>>, <<>>))
    @@ ("disknames" :> Leaf(<<HW_DISKNAMES>>, <<"SysString">>, <<>>))
    @@ ("diskstats" :> Leaf(<<HW_DISKSTATS>>, <<"SysStruct">>, <<>>))
    @@ ("diskcount" :> Leaf(<<HW_DISKCOUNT>>, <<>>, <<>>))
    @@ ("sensors" :> Leaf(<<HW_SENSORS>>, <<"Node">>, <<>>))
    @@ ("cpuspeed" :> Leaf(<<HW_CPUSPEED>>, <<>>, <<>>))
    @@ ("setperf" :> Leaf(<<HW_SETPERF>>, <<>>, <<TRUE>>))
    @@ ("vendor" :> Leaf(<<HW_VENDOR>>, <<"SysString">>, <<>>))
    @@ ("product" :> Leaf(<<HW_PRODUCT>>, <<"SysString">>, <<>>))
    @@ ("version" :> Leaf(<<HW_VERSION>>, <<"SysString">>, <<>>))
    @@ ("serialno" :> Leaf(<<HW_SERIALNO>>, <<>>, <<>>))
    @@ ("uuid" :> Leaf(<<HW_UUID>>, <<"SysString">>, <<>>))
    @@ ("physmem" :> Leaf(<<HW_PHYSMEM64>>, <<"Int64">>, <<>>))
    @@ ("usermem" :> Leaf(<<HW_USERMEM64>>, <<"Int64">>, <<>>))
    @@ ("npcufound" :> Leaf(<<HW_NCPUFOUND>>, <<>>, <<>>))
    @@ ("allowpowerdown" :> Leaf(<<HW_ALLOWPOWERDOWN>>, <<>>, <<TRUE>>))
    @@ ("perfpolicy" :> Leaf(<<HW_PERFPOLICY>>, <<"SysString">>, <<TRUE>>))
    @@ ("smt" :> Leaf(<<HW_SMT>>, <<>>, <<TRUE>>))
    @@ ("ncpuonline" :> Leaf(<<HW_NCPUONLINE>>, <<>>, <<>>))

\* lib.rs:1243-1249
Match_machdep ==
    ("allowaperture" :> Leaf(<<MACHDEP_ALLOWAPERTURE>>, <<>>, <<>>))
    @@ ("kbdreset" :> Leaf(<<MACHDEP_KBDRESET>>, <<>>, <<>>))
    @@ ("lidaction" :> Leaf(<<MACHDEP_LIDACTION>>, <<>>, <<>>))
    @@ ("pwraction" :> Leaf(<<MACHDEP_PWRACTION>>, <<>>, <<>>))

\* lib.rs:1259-1270
Match_ddb ==
    ("radix" :> Leaf(<<DBCTL_RADIX>>, <<>>, <<>>))
    @@ ("max_width" :> Leaf(<<DBCTL_MAXWIDTH>>, <<>>, <<>>))
    @@ ("max_line" :> Leaf(<<DBCTL_MAXLINE>>, <<>>, <<>>))
    @@ ("tab_stop_width" :> Leaf(<<DBCTL_TABSTOP>>, <<>>, <<>>))
    @@ ("panic" :> Leaf(<<DBCTL_PANIC>>, <<>>, <<>>))
    @@ ("console" :> Leaf(<<DBCTL_CONSOLE>>, <<>>, <<>>))
    @@ ("log" :> Leaf(<<DBCTL_LOG>>, <<>>, <<>>))
    @@ ("trigger" :> Leaf(<<DBCTL_TRIGGER>>, <<>>, <<>>))
    @@ ("profile" :> Leaf(<<DBCTL_PROFILE>>, <<>>, <<>>))

\* lib.rs:1288-1308
Match_vfs_ffs ==
    ("max_softdeps" :> Leaf(<<FFS_MAX_SOFTDEPS>>, <<>>, <<>>))
    @@ ("sd_tickdelay" :> Leaf(<<FFS_SD_TICKDELAY>>, <<>>, <<>>))
    @@ ("sd_worklist_push" :> Leaf(<<FFS_SD_WORKLIST_PUSH>>, <<>>, <<>>))
    @@ ("sd_blk_limit_push" :> Leaf(<<FFS_SD_BLK_LIMIT_PUSH>>, <<>>, <<>>))
    @@ ("sd_ino_limit_push" :> Leaf(<<FFS_SD_INO_LIMIT_PUSH>>, <<>>, <<>>))
    @@ ("sd_blk_limit_hit" :> Leaf(<<FFS_SD_BLK_LIMIT_HIT>>, <<>>, <<>>))
    @@ ("sd_ino_limit_hit" :> Leaf(<<FFS_SD_INO_LIMIT_HIT>>, <<>>, <<>>))
    @@ ("sd_sync_limit_hit" :> Leaf(<<FFS_SD_SYNC_LIMIT_HIT>>, <<>>, <<>>))
    @@ ("sd_indir_blk_ptrs" :> Leaf(<<FFS_SD_INDIR_BLK_PTRS>>, <<>>, <<>>))
    @@ ("sd_inode_bitmap" :> Leaf(<<FFS_SD_INODE_BITMAP>>, <<>>, <<>>))
    @@ ("sd_direct_blk_ptrs" :> Leaf(<<FFS_SD_DIRECT_BLK_PTRS>>, <<>>, <<>>))
    @@ ("sd_dir_entry" :> Leaf(<<FFS_SD_DIR_ENTRY>>, <<>>, <<>>))
    @@ ("dirhash_dirsize" :> Leaf(<<FFS_DIRHASH_DIRSIZE>>, <<>>, <<>>))
    @@ ("dirhash_maxmem" :> Leaf(<<FFS_DIRHASH_MAXMEM>>, <<>>, <<>>))
    @@ ("dirhash_mem" :> Leaf(<<FFS_DIRHASH_MEM>>, <<>>, <<FALSE>>))

\* lib.rs:1313-1320
Match_vfs_nfs ==
    ("nfsstats" :> Leaf(<<NFS_NFSSTATS>>, <<"SysStruct">>, <<>>))
    @@ ("iothreads" :> Leaf(<<NFS_NIOTHREADS>>, <<>>, <<>>))

\* lib.rs:1330-1336
Match_vfs_fuse ==
    ("fusefs_open_devices" :> Leaf(<<FUSEFS_OPENDEVS>>, <<>>, <<>>))
    @@ ("fusefs_fbufs_in" :> Leaf(<<FUSEFS_INBUFS>>, <<>>, <<>>))
    @@ ("fusefs_fbufs_wait" :> Leaf(<<FUSEFS_WAITBUFS>>, <<>>, <<>>))
    @@ ("fusefs_pool_pages" :> Leaf(<<FUSEFS_POOL_NBPAGES>>, <<>>, <<>>))

\* lib.rs:1281-1339
Match_vfs ==
    ("mounts" :> Leaf(<<0>>, <<>>, <<>>))
    @@ ("ffs" :> Sub(<<1>>, <<>>, <<TRUE>>, 1, Match_vfs_ffs))
    @@ ("nfs" :> Sub(<<3>>, <<>>, <<TRUE>>, 1, Match_vfs_nfs))
    @@ ("mfs" :> Leaf(<<4>>, <<>>, <<>>))
    @@ ("msdos" :> Leaf(<<5>>, <<>>, <<>>))
    @@ ("ntfs" :> Leaf(<<7>>, <<>>, <<>>))
    @@ ("udf" :> Leaf(<<14>>, <<>>, <<>>))
    @@ ("cd9660" :> Leaf(<<15>>, <<>>, <<>>))
    @@ ("ext2fs" :> Leaf(<<18>>, <<>>, <<>>))
    @@ ("fuse" :> Sub(<<19>>, <<>>, <<>>, 1, Match_vfs_fuse))

\* lib.rs:1346-1385
AddrFamilies ==
    ("unix" :> AF_UNIX)
    @@ ("local" :> AF_LOCAL)
    @@ ("inet" :> AF_INET)
    @@ ("implink" :> AF_IMPLINK)
    @@ ("pup" :> AF_PUP)
    @@ ("chaos" :> AF_CHAOS)
    @@ ("ns" :> AF_NS)
    @@ ("iso" :> AF_ISO)
    @@ ("osi" :> AF_OSI)
    @@ ("ecma" :> AF_ECMA)
    @@ ("datakit" :> AF_DATAKIT)
    @@ ("ccitt" :> AF_CCITT)
    @@ ("sna" :> AF_SNA)
    @@ ("decnet" :> AF_DECnet)
    @@ ("dli" :> AF_DLI)
    @@ ("lat" :> AF_LAT)
    @@ ("hylink" :> AF_HYLINK)
    @@ ("appletalk" :> AF_APPLETALK)
    @@ ("route" :> AF_ROUTE)
    @@ ("link" :> AF_LINK)
    @@ ("coip" :> AF_COIP)
    @@ ("cnt" :> AF_CNT)
    @@ ("ipx" :> AF_IPX)
    @@ ("inet6" :> AF_INET6)
    @@ ("isdn" :> AF_ISDN)
    @@ ("e164" :> AF_E164)
    @@ ("natm" :> AF_NATM)
    @@ ("encap" :> AF_ENCAP)
    @@ ("sip" :> AF_SIP)
    @@ ("key" :> AF_KEY)
    @@ ("bluetooth" :> AF_BLUETOOTH)
    @@ ("mpls" :> AF_MPLS)
    @@ ("0" :> 0)
(***************************************************************************)
(* Results.  Result<Sysctl> and Result<()> are Ok, Err(Error::Sys(errno))  *)
(* or a panic that unwinds out of the call.  Error::invalid_argument() is  *)
(* Error::Sys(EINVAL).                                                     *)
(***************************************************************************)
NoSysctl == [mib |-> <<>>, value_type |-> "none", changeable |-> FALSE]

NoResult == [kind |-> "None", errno |-> "none", sysctl |-> NoSysctl]

ResOk(s) == [kind |-> "Ok", errno |-> "none", sysctl |-> s]

\* a variant of the Err results that keeps one generic code, the one of
\* Error::invalid_argument(), whatever errno was reported
ResErrGeneric(e) == [kind |-> "Err", errno |-> "EINVAL", sysctl |-> NoSysctl]

ResErr(e) == [kind |-> "Err", errno |-> e, sysctl |-> NoSysctl]

ResPanic(why) == [kind |-> "Panic", errno |-> why, sysctl |-> NoSysctl]

\* Sysctl::new
SysctlNew(mib, value_type, changeable) ==
    ResOk([mib |-> mib, value_type |-> value_type, changeable |-> changeable])

\* get_addr_family: <<af>> for Ok(af), <<>> for Err(invalid_argument)
get_addr_family(name) ==
    IF name \in DOMAIN AddrFamilies THEN <<AddrFamilies[name]>> ELSE <<>>

(***************************************************************************)
(* One match expression of the parse_mib functions: index names[idx] (a    *)
(* panic when idx is past the end of the slice), take the arm of that name *)
(* or the `_ => return Err(Error::invalid_argument())` arm, run the arm. s *)
(* is the function's local state: mib, value_type, changeable.             *)
(***************************************************************************)
\* a variant of Walk in which `changeable = false` in an arm does not take
\* back a `changeable = true` of an enclosing arm
RECURSIVE WalkKeepingChangeable(_, _, _, _)
WalkKeepingChangeable(table, idx, names, s) ==
    IF idx >= Len(names) THEN ResPanic("index out of bounds")
    ELSE IF names[idx + 1] \notin DOMAIN table THEN ResErr("EINVAL")
    ELSE LET a  == table[names[idx + 1]]
             s1 == [mib |-> s.mib \o a.push,
                    value_type |-> IF a.vt = <<>> THEN s.value_type ELSE a.vt[1],
                    changeable |-> IF a.ch = <<>> THEN s.changeable
                                  ELSE s.changeable \/ a.ch[1]]
         IN  IF a.then = "Unimplemented" THEN ResPanic("not implemented")
             ELSE IF a.af # <<>> /\ a.af[1] >= Len(names)
                  THEN ResPanic("index out of bounds")
             ELSE IF a.af # <<>> /\ get_addr_family(names[a.af[1] + 1]) = <<>>
                  THEN ResErr("EINVAL")
             ELSE LET s2 == IF a.af = <<>> THEN s1
                            ELSE [s1 EXCEPT !.mib =
                                     @ \o get_addr_family(names[a.af[1] + 1])]
                      s3 == IF a.iflen = <<>> THEN s2
                            ELSE [s2 EXCEPT !.mib =
                                     @ \o (IF Len(names) > a.iflen[1]
                                           THEN <<0>> ELSE <<0>>)]
                  IN  IF a.then = "Match" THEN WalkKeepingChangeable(a.sub, a.idx, names, s3)
                      ELSE ResOk(s3)

RECURSIVE Walk(_, _, _, _)
Walk(table, idx, names, s) ==
    IF idx >= Len(names) THEN ResPanic("index out of bounds")
    ELSE IF names[idx + 1] \notin DOMAIN table THEN ResErr("EINVAL")
    ELSE LET a  == table[names[idx + 1]]
             s1 == [mib |-> s.mib \o a.push,
                    value_type |-> IF a.vt = <<>> THEN s.value_type ELSE a.vt[1],
                    changeable |-> IF a.ch = <<>> THEN s.changeable ELSE a.ch[1]]
         IN  IF a.then = "Unimplemented" THEN ResPanic("not implemented")
             ELSE IF a.af # <<>> /\ a.af[1] >= Len(names)
                  THEN ResPanic("index out of bounds")
             ELSE IF a.af # <<>> /\ get_addr_family(names[a.af[1] + 1]) = <<>>
                  THEN ResErr("EINVAL")
             ELSE LET s2 == IF a.af = <<>> THEN s1
                            ELSE [s1 EXCEPT !.mib =
                                     @ \o get_addr_family(names[a.af[1] + 1])]
                      s3 == IF a.iflen = <<>> THEN s2
                            ELSE [s2 EXCEPT !.mib =
                                     @ \o (IF Len(names) > a.iflen[1]
                                           THEN <<0>> ELSE <<0>>)]
                  IN  IF a.then = "Match" THEN Walk(a.sub, a.idx, names, s3)
                      ELSE ResOk(s3)

Locals(mib) == [mib |-> mib, value_type |-> "Int32", changeable |-> FALSE]

\* a variant of parse_mib_kern whose local changeable starts as true
parse_mib_kern_changeable(names) ==
    Walk(Match_kern, 0, names,
         [mib |-> <<CTL_KERN>>, value_type |-> "Int32", changeable |-> TRUE])

parse_mib_kern(names) == Walk(Match_kern, 0, names, Locals(<<CTL_KERN>>))

\* a variant of parse_mib_vm whose mib starts empty, as parse_mib_hw's does
parse_mib_vm_without_domain(names) == Walk(Match_vm, 0, names, Locals(<<>>))

parse_mib_vm(names) == Walk(Match_vm, 0, names, Locals(<<CTL_VM>>))

parse_mib_fs(names) ==
    LET r == Walk(Match_fs, 0, names, Locals(<<CTL_FS>>))
    IN  IF r.kind = "Ok" THEN SysctlNew(r.sysctl.mib, "Int32", TRUE) ELSE r

parse_mib_net(names) == Walk(Match_net, 0, names, Locals(<<CTL_NET>>))

parse_mib_debug(names) == Walk(Match_debug, 0, names, Locals(<<CTL_DEBUG>>))

parse_mib_hw(names) == Walk(Match_hw, 0, names, Locals(<<>>))

parse_mib_machdep(names) ==
    LET r == Walk(Match_machdep, 0, names, Locals(<<CTL_MACHDEP>>))
    IN  IF r.kind = "Ok" THEN SysctlNew(r.sysctl.mib, "Int32", TRUE) ELSE r

parse_mib_ddb(names) ==
    LET r == Walk(Match_ddb, 0, names, Locals(<<CTL_DDB>>))
    IN  IF r.kind = "Ok" THEN SysctlNew(r.sysctl.mib, "Int32", TRUE) ELSE r

parse_mib_vfs(names) == Walk(Match_vfs, 0, names, Locals(<<CTL_VFS>>))

\* names[0] exists: split yields at least one piece
get_sysctl(names) ==
    CASE names[1] = "kern"    -> parse_mib_kern(Tail(names))
      [] names[1] = "vm"      -> parse_mib_vm(Tail(names))
      [] names[1] = "fs"      -> parse_mib_fs(Tail(names))
      [] names[1] = "net"     -> parse_mib_net(Tail(names))
      [] names[1] = "debug"   -> parse_mib_debug(Tail(names))
      [] names[1] = "hw"      -> parse_mib_hw(Tail(names))
      [] names[1] = "machdep" -> parse_mib_machdep(Tail(names))
      [] names[1] = "ddb"     -> parse_mib_ddb(Tail(names))
      [] names[1] = "vfs"     -> parse_mib_vfs(Tail(names))
      [] OTHER                -> ResErr("EINVAL")

(***************************************************************************)
(* name.split(|c| c == '=' || c == '.'): every delimiter ends a piece, the *)
(* end of the string ends the last one; pieces may be empty.               *)
(***************************************************************************)
Delimiters == {"=", "."}

RECURSIVE SplitFrom(_, _, _, _)
SplitFrom(name, i, cur, acc) ==
    IF i > Len(name) THEN Append(acc, cur)
    ELSE IF name[i] \in Delimiters
         THEN SplitFrom(name, i + 1, "", Append(acc, cur))
         ELSE SplitFrom(name, i + 1, name[i], acc)

split(name) == SplitFrom(name, 1, "", <<>>)

parse_mib_str(name) == get_sysctl(split(name))

(***************************************************************************)
(* The names the code declares: the chains of arm labels of get_sysctl and *)
(* of the nested matches of the parse_mib functions, down to an arm that   *)
(* has no nested match.  Under net.route the code reads the address family *)
(* from names[2] and the operation from names[3], leaving names[1] for the *)
(* protocol number, which is "always 0 for now" (lib.rs:727).              *)
(***************************************************************************)
Domains ==
    ("kern" :> Match_kern) @@ ("vm" :> Match_vm) @@ ("fs" :> Match_fs)
    @@ ("net" :> Match_net) @@ ("debug" :> Match_debug) @@ ("hw" :> Match_hw)
    @@ ("machdep" :> Match_machdep) @@ ("ddb" :> Match_ddb)
    @@ ("vfs" :> Match_vfs)

RECURSIVE PathsOf(_)
PathsOf(table) ==
    UNION { LET a == table[n]
            IN  IF a.then # "Match" THEN {<<n>>}
                ELSE IF a.af # <<>>
                     THEN {<<n, "0", f>> \o p :
                              f \in DOMAIN AddrFamilies, p \in PathsOf(a.sub)}
                ELSE {<<n>> \o p : p \in PathsOf(a.sub)}
          : n \in DOMAIN table }

DeclaredPaths == UNION {{<<d>> \o p : p \in PathsOf(Domains[d])} : d \in DOMAIN Domains}

Prefix(s, k) == SubSeq(s, 1, k)

IsProperPrefix(q, s) == Len(q) < Len(s) /\ Prefix(s, Len(q)) = q

\* the interior nodes of the declared tree (the root is <<>>)
InteriorPaths == UNION {{Prefix(p, k) : k \in 0..(Len(p) - 1)} : p \in DeclaredPaths}

(***************************************************************************)
(* Bounded inputs.  The segment lists are the declared names, their        *)
(* prefixes, a declared name with one segment replaced by a word no match  *)
(* knows or by the empty segment, and a declared name followed by up to    *)
(* MaxTrailing more segments.  The separators are '.', with '=' allowed in *)
(* the last MaxAssign separator positions.                                 *)
(***************************************************************************)
MaxTrailing == 2

MaxAssign == 2

UnknownWords == {"nonexistent", ""}

TrailingWords == {"myhost", "extra", ""}

RECURSIVE SeqsUpTo(_, _)
SeqsUpTo(S, n) ==
    IF n = 0 THEN {<<>>}
    ELSE LET shorter == SeqsUpTo(S, n - 1)
         IN  shorter \cup {Append(t, w) : t \in shorter, w \in S}

SegmentLists ==
    {<<"">>}
    \cup UNION {
        {Prefix(p, k) : k \in 1..Len(p)}
        \cup {[p EXCEPT ![k] = w] : k \in 1..Len(p), w \in UnknownWords}
        \cup {[Prefix(p, k) EXCEPT ![k] = w] : k \in 1..Len(p), w \in UnknownWords}
        \cup {p \o t : t \in SeqsUpTo(TrailingWords, MaxTrailing)}
        : p \in DeclaredPaths }

SeparatorLists(n) ==
    {[i \in 1..n |-> IF i \in E THEN "=" ELSE "."] :
        E \in SUBSET {j \in 1..n : j > n - MaxAssign}}

RECURSIVE JoinFrom(_, _, _)
JoinFrom(segs, seps, i) ==
    IF i > Len(segs) THEN <<>>
    ELSE (IF segs[i] = "" THEN <<>> ELSE <<segs[i]>>)
         \o (IF i < Len(segs) THEN <<seps[i]>> ELSE <<>>)
         \o JoinFrom(segs, seps, i + 1)

Names ==
    UNION {{JoinFrom(segs, seps, 1) : seps \in SeparatorLists(Len(segs) - 1)}
           : segs \in SegmentLists}

(***************************************************************************)
(* The kernel (sysctl(2)) is external.  It holds one value per address, a  *)
(* sequence of bytes.  A call fails with an errno or succeeds; a call that *)
(* succeeds stores the value's size in len, copies the value out when oldp *)
(* is not null and len is large enough, and copies the new value in when   *)
(* newp is not null.  Which set calls the kernel accepts is its own        *)
(* business (OpenBSD rejects the set of a scalar whose newlen is not the   *)
(* scalar's width).                                                        *)
(***************************************************************************)
Errnos == {"EPERM", "EINVAL", "ENOMEM"}

MaxValueLen == 2

KernelSizes == 1..MaxValueLen

MaxByte == 2

\* mem::size_of::<*mut c_void>() on amd64
PtrSize == 8

Fill(n, b) == [i \in 1..n |-> b]

Take(s, n) == SubSeq(s, 1, IF n < Len(s) THEN n ELSE Len(s))

Scalars == {"Int32", "Int64", "Long", "DevT"}

\* size_of the C type behind each scalar SysctlType on amd64
Width(value_type) ==
    CASE value_type = "Int32" -> 4
      [] value_type = "Int64" -> 8
      [] value_type = "Long" -> 8
      [] value_type = "DevT" -> 4

\* the bytes before the first NUL
RECURSIVE UpToNul(_)
UpToNul(bytes) ==
    IF bytes = <<>> \/ Head(bytes) = 0 THEN <<>>
    ELSE <<Head(bytes)>> \o UpToNul(Tail(bytes))

\* the values the kernel may hold for a target of the given type: a scalar
\* of the type's width, a NUL-terminated string, or an opaque value that is
\* shorter or longer than a pointer
KernelValues(value_type) ==
    IF value_type \in Scalars
    THEN {Fill(Width(value_type), b) : b \in 1..MaxByte}
    ELSE IF value_type = "SysString"
    THEN {Fill(n - 1, b) \o <<0>> : n \in KernelSizes, b \in 1..MaxByte}
    ELSE {Fill(n, b) : n \in {MaxValueLen, PtrSize + MaxValueLen},
                       b \in 1..MaxByte}

\* the value the kernel keeps when it accepts newlen bytes at bytes
CopyIn(value_type, bytes, newlen) ==
    IF value_type \in Scalars THEN Take(bytes, Width(value_type))
    ELSE IF value_type = "SysString" THEN UpToNul(Take(bytes, newlen)) \o <<0>>
    ELSE Take(bytes, newlen)

\* the buffer after the kernel copied value out to its start
CopyOut(buf, v) ==
    [i \in 1..Len(buf) |-> IF i <= Len(v) THEN v[i] ELSE buf[i]]

\* the caller's buffers: a zero-filled one to read into (tests::call_sysctl
\* has 256 bytes), and one that holds the new value
BufCap == PtrSize + MaxValueLen

OldBuffers == {Fill(BufCap, 0)}

\* a buffer shorter than every value but the empty string: the accessors
\* take any &mut Vec<u8>
ShortBuffers == {Fill(1, 0)}

NewBuffers == {Fill(PtrSize, b) : b \in 1..MaxByte}

(***************************************************************************)
(* State: one invocation of an accessor generated by sysctl_read!,         *)
(* sysctl_write! or sysctl_readwrite!, which calls sysctl_raw.             *)
(***************************************************************************)
VARIABLES
    pc,        \* "idle", "entry", "probe", "fetch", "done"
    accessor,  \* the macro that generated the entry point
    name,      \* $sysctl_name, as tokens
    oldp,      \* sysctl_raw's oldp: "null" or the caller buffer it points to
    newp,      \* sysctl_raw's newp
    parsed,    \* parse_mib_str(name), before `?`
    len,       \* sysctl_raw's len
    calls,     \* the libc::sysctl calls issued so far
    ret,       \* what the invocation returned
    oldbuf,    \* the bytes of the accessor's parameter oldp
    newbuf,    \* the bytes of the accessor's parameter newp
    kernel,    \* the kernel's value at the one address observed so far
    prev,      \* the invocation that returned before this one
    value,     \* the c_int slice handed to SysctlValue::from_sysctl
    decoded    \* what from_sysctl returned

vars == <<pc, accessor, name, oldp, newp, parsed, len, calls, ret,
          oldbuf, newbuf, kernel, prev, value, decoded>>

sysctl_s == parsed.sysctl

Accessors == {"sysctl_read", "sysctl_write", "sysctl_readwrite"}

\* the arguments each generated function hands to sysctl_raw; "oldp" and
\* "newp" are the generated function's own parameters
\* a variant of sysctl_read! with the arguments of sysctl_write!
sysctl_read_as_new_value == [oldp |-> "null", newp |-> "oldp"]

sysctl_read == [oldp |-> "oldp", newp |-> "null"]

\* a variant of sysctl_write! that hands no new value to sysctl_raw
sysctl_write_without_value == [oldp |-> "null", newp |-> "null"]

sysctl_write == [oldp |-> "null", newp |-> "oldp"]

sysctl_readwrite == [oldp |-> "oldp", newp |-> "newp"]

MacroArgs(a) ==
    CASE a = "sysctl_read" -> sysctl_read
      [] a = "sysctl_write" -> sysctl_write
      [] a = "sysctl_readwrite" -> sysctl_readwrite

NoKernel == [mib |-> <<>>, val |-> <<>>]

NoPrev == [accessor |-> "none", name |-> <<>>, newbuf |-> <<>>, kind |-> "None"]

Init ==
    /\ pc = "idle"
    /\ accessor = "none"
    /\ name = <<>>
    /\ oldp = "null"
    /\ newp = "null"
    /\ parsed = NoResult
    /\ len = 0
    /\ calls = <<>>
    /\ ret = NoResult
    /\ oldbuf = <<>>
    /\ newbuf = <<>>
    /\ kernel = NoKernel
    /\ prev = NoPrev
    /\ value = <<>>
    /\ decoded = NoResult

\* a caller enters a generated accessor, which enters sysctl_raw; the
\* accessor of sysctl_read! has no parameter newp
Call(a, n, ob, nb) ==
    /\ pc = "idle"
    /\ pc' = "entry"
    /\ accessor' = a
    /\ name' = n
    /\ oldp' = MacroArgs(a).oldp
    /\ newp' = MacroArgs(a).newp
    /\ oldbuf' = ob
    /\ newbuf' = IF a = "sysctl_read" THEN <<>> ELSE nb
    /\ UNCHANGED <<parsed, len, calls, ret, kernel, prev, value, decoded>>

\* a variant of Resolve that drops the `?` of line 234 and goes on with an
\* empty Sysctl when parse_mib_str returned Err
ResolveWithoutPropagation ==
    /\ pc = "entry"
    /\ LET r == parse_mib_str(name)
       IN  /\ parsed' = r
           /\ IF r.kind \in {"Ok", "Err"}
              THEN /\ len' = PtrSize
                   /\ pc' = IF r.sysctl.value_type = "SysString"
                            THEN "probe" ELSE "fetch"
                   /\ ret' = ret
              ELSE /\ len' = len
                   /\ pc' = "done"
                   /\ ret' = r
    /\ UNCHANGED <<accessor, name, oldp, newp, calls,
                   oldbuf, newbuf, kernel, prev, value, decoded>>

\* sysctl_raw, lines 232-243: parse_mib_str(name)?, the locals, the test of
\* value_type
Resolve ==
    /\ pc = "entry"
    /\ LET r == parse_mib_str(name)
       IN  /\ parsed' = r
           /\ IF r.kind = "Ok"
              THEN /\ len' = PtrSize
                   /\ pc' = IF r.sysctl.value_type = "SysString"
                            THEN "probe" ELSE "fetch"
                   /\ ret' = ret
              ELSE /\ len' = len
                   /\ pc' = "done"
                   /\ ret' = r
    /\ UNCHANGED <<accessor, name, oldp, newp, calls,
                   oldbuf, newbuf, kernel, prev, value, decoded>>

\* the values the kernel may hold at the resolved address: the one already
\* observed there, or any value of the target's type
KernelNow ==
    IF kernel.mib = sysctl_s.mib THEN {kernel.val}
    ELSE KernelValues(sysctl_s.value_type)

\* the bytes a pointer argument of sysctl_raw points to
Pointee(p) ==
    CASE p = "oldp" -> oldbuf
      [] p = "newp" -> newbuf
      [] p = "null" -> <<>>

SysctlCall(phase, op, oldlen, np, newlen, res) ==
    [phase |-> phase, mib |-> sysctl_s.mib, oldp |-> op, oldlen |-> oldlen,
     newp |-> np, newlen |-> newlen, res |-> res]

\* a variant of SizeProbe without the early return of lines 253-256: the
\* fetch follows a failed probe
SizeProbeIgnoringFailure ==
    /\ pc = "probe"
    /\ \/ \E e \in Errnos :
             /\ calls' = Append(calls, SysctlCall("probe", "null", len, "null", 0, e))
             /\ ret' = ret
             /\ pc' = "fetch"
             /\ len' = len
             /\ kernel' = kernel
       \/ \E v \in KernelNow :
             /\ calls' = Append(calls, SysctlCall("probe", "null", len, "null", 0, "ok"))
             /\ len' = Len(v)
             /\ kernel' = [mib |-> sysctl_s.mib, val |-> v]
             /\ pc' = "fetch"
             /\ ret' = ret
    /\ UNCHANGED <<accessor, name, oldp, newp, parsed,
                   oldbuf, newbuf, prev, value, decoded>>

\* sysctl_raw, lines 244-257: the size probe of a SysString
SizeProbe ==
    /\ pc = "probe"
    /\ \/ \E e \in Errnos :
             /\ calls' = Append(calls, SysctlCall("probe", "null", len, "null", 0, e))
             /\ ret' = ResErr(e)
             /\ pc' = "done"
             /\ len' = len
             /\ kernel' = kernel
       \/ \E v \in KernelNow :
             /\ calls' = Append(calls, SysctlCall("probe", "null", len, "null", 0, "ok"))
             /\ len' = Len(v)
             /\ kernel' = [mib |-> sysctl_s.mib, val |-> v]
             /\ pc' = "fetch"
             /\ ret' = ret
    /\ UNCHANGED <<accessor, name, oldp, newp, parsed,
                   oldbuf, newbuf, prev, value, decoded>>

\* a variant of FetchSet that issues the call once more after a failure
FetchSetRetrying ==
    /\ pc = "fetch"
    /\ LET newp_len == CTL_MAXNAME * PtrSize
       IN  \/ \E e \in Errnos :
                 /\ calls' = Append(calls, SysctlCall("fetch", oldp, len, newp, newp_len, e))
                 /\ ret' = ResErr(e)
                 /\ pc' = IF Len(calls) < 2 THEN "fetch" ELSE "done"
                 /\ UNCHANGED <<oldbuf, kernel>>
           \/ \E v \in KernelNow :
                 /\ oldp # "null" => len >= Len(v)
                 /\ calls' = Append(calls, SysctlCall("fetch", oldp, len, newp, newp_len, "ok"))
                 /\ ret' = ResOk(NoSysctl)
                 /\ pc' = "done"
                 /\ oldbuf' = IF oldp = "null" THEN oldbuf ELSE CopyOut(oldbuf, v)
                 /\ kernel' = [mib |-> sysctl_s.mib,
                               val |-> IF newp = "null" THEN v
                                       ELSE CopyIn(sysctl_s.value_type, Pointee(newp), newp_len)]
    /\ UNCHANGED <<accessor, name, oldp, newp, parsed, len,
                   newbuf, prev, value, decoded>>

\* sysctl_raw, lines 259-273: the call that reads and/or sets
FetchSet ==
    /\ pc = "fetch"
    /\ LET newp_len == CTL_MAXNAME * PtrSize
       IN  \/ \E e \in Errnos :
                 /\ calls' = Append(calls, SysctlCall("fetch", oldp, len, newp, newp_len, e))
                 /\ ret' = ResErr(e)
                 /\ UNCHANGED <<oldbuf, kernel>>
           \/ \E v \in KernelNow :
                 /\ oldp # "null" => len >= Len(v)
                 /\ calls' = Append(calls, SysctlCall("fetch", oldp, len, newp, newp_len, "ok"))
                 /\ ret' = ResOk(NoSysctl)
                 /\ oldbuf' = IF oldp = "null" THEN oldbuf ELSE CopyOut(oldbuf, v)
                 /\ kernel' = [mib |-> sysctl_s.mib,
                               val |-> IF newp = "null" THEN v
                                       ELSE CopyIn(sysctl_s.value_type, Pointee(newp), newp_len)]
    /\ pc' = "done"
    /\ UNCHANGED <<accessor, name, oldp, newp, parsed, len,
                   newbuf, prev, value, decoded>>

\* any accessor, bound to any name
Invoke ==
    /\ pc = "idle"
    /\ \E a \in Accessors, n \in Names, ob \in OldBuffers :
          Call(a, n, ob, Fill(PtrSize, 1))

Next ==
    \/ Invoke
    \/ Resolve
    \/ SizeProbe
    \/ FetchSet

Spec == Init /\ [][Next]_vars

(***************************************************************************)
(* A caller that goes on: after an accessor returned it calls an accessor  *)
(* bound to the same name again, with no other writer in between, so the   *)
(* kernel holds what the earlier invocation left.                          *)
(***************************************************************************)
Dotted(p) == JoinFrom(p, [i \in 1..(Len(p) - 1) |-> "."], 1)

DottedNames == {Dotted(p) : p \in DeclaredPaths}

\* the accessor returns to its caller (a panic does not return)
Return ==
    /\ pc = "done"
    /\ ret.kind \in {"Ok", "Err"}
    /\ pc' = "idle"
    /\ prev' = [accessor |-> accessor, name |-> name, newbuf |-> newbuf,
                kind |-> ret.kind]
    /\ accessor' = "none"
    /\ name' = <<>>
    /\ oldp' = "null"
    /\ newp' = "null"
    /\ parsed' = NoResult
    /\ len' = 0
    /\ calls' = <<>>
    /\ ret' = NoResult
    /\ oldbuf' = <<>>
    /\ newbuf' = <<>>
    /\ UNCHANGED <<kernel, value, decoded>>

\* any accessor, bound to a declared name, or to the name of the invocation
\* before
InvokeDeclared ==
    /\ pc = "idle"
    /\ \E a \in Accessors,
          n \in (IF prev = NoPrev THEN DottedNames ELSE {prev.name}),
          ob \in OldBuffers \cup ShortBuffers, nb \in NewBuffers :
          Call(a, n, ob, nb)

NextIO ==
    \/ InvokeDeclared
    \/ Resolve
    \/ SizeProbe
    \/ FetchSet
    \/ Return

SpecIO == Init /\ [][NextIO]_vars

(***************************************************************************)
(* value.rs: the trait SysctlValue, the only codec of the repository.      *)
(* Nothing in lib.rs calls it (lib.rs has no `mod value`), so it is        *)
(* applied here to slices drawn from a bounded set.                        *)
(***************************************************************************)
MaxSliceLen == 4

Slices == UNION {[1..n -> 0..MaxByte] : n \in 0..MaxSliceLen}

\* impl SysctlValue for String, fn from_sysctl: the body is unimplemented!()
String_from_sysctl(v) == ResPanic("not implemented")

InitCodec ==
    /\ pc = "idle"
    /\ accessor = "none"
    /\ name = <<>>
    /\ oldp = "null"
    /\ newp = "null"
    /\ parsed = NoResult
    /\ len = 0
    /\ calls = <<>>
    /\ ret = NoResult
    /\ oldbuf = <<>>
    /\ newbuf = <<>>
    /\ kernel = NoKernel
    /\ prev = NoPrev
    /\ value \in Slices
    /\ decoded = NoResult

\* String::from_sysctl(value)
Decode ==
    /\ decoded = NoResult
    /\ decoded' = String_from_sysctl(value)
    /\ UNCHANGED <<pc, accessor, name, oldp, newp, parsed, len, calls, ret,
                   oldbuf, newbuf, kernel, prev, value>>

NextCodec == Decode

SpecCodec == InitCodec /\ [][NextCodec]_vars

(***************************************************************************)
(* Resolution of two declared names: the name of this invocation and, in   *)
(* prev.name, another declared name to compare its address with.           *)
(***************************************************************************)
InitPair ==
    /\ pc = "idle"
    /\ accessor = "none"
    /\ name = <<>>
    /\ oldp = "null"
    /\ newp = "null"
    /\ parsed = NoResult
    /\ len = 0
    /\ calls = <<>>
    /\ ret = NoResult
    /\ oldbuf = <<>>
    /\ newbuf = <<>>
    /\ kernel = NoKernel
    /\ \E q \in DottedNames : prev = [NoPrev EXCEPT !.name = q]
    /\ value = <<>>
    /\ decoded = NoResult

\* the accessor of sysctl_read!, bound to a declared name
InvokeRead ==
    /\ pc = "idle"
    /\ \E n \in DottedNames, ob \in OldBuffers :
          Call("sysctl_read", n, ob, <<>>)

NextPair ==
    \/ InvokeRead
    \/ Resolve

SpecPair == InitPair /\ [][NextPair]_vars

(***************************************************************************)
(* Vocabulary of the properties.                                           *)
(***************************************************************************)
Range(s) == {s[i] : i \in 1..Len(s)}

Resolved == parsed.kind # "None"

\* the pieces the tokenizer cuts the name into
Segments == split(name)

DottedOnly == "=" \notin Range(name)

NoEmptySegment == "" \notin Range(Segments)

\* a path: segments separated by '.', none of them empty
IsPath == DottedOnly /\ NoEmptySegment

\* interior nodes under which the code accepts any segment (the protocol
\* number of net.route)
TakesAnySegment == {<<"net", "route">>}

IsWrite == accessor \in {"sysctl_write", "sysctl_readwrite"}

\* positions of the first '=' (Len + 1 when there is none)
FirstAssign == 
    IF DottedOnly THEN Len(name) + 1
    ELSE CHOOSE i \in 1..Len(name) :
            name[i] = "=" /\ \A j \in 1..(i - 1) : name[j] # "="

NamePortion == SubSeq(name, 1, FirstAssign - 1)

ValuePortion == SubSeq(name, FirstAssign + 1, Len(name))

\* a leading, trailing or doubled '.' in the name portion (or nothing at all)
HasEmptySegment(n) ==
    \/ n = <<>>
    \/ n[1] = "."
    \/ n[Len(n)] = "."
    \/ \E i \in 1..(Len(n) - 1) : n[i] = "." /\ n[i + 1] = "."

\* the numeric code of each top-level domain
DomainCode ==
    ("kern" :> CTL_KERN) @@ ("vm" :> CTL_VM) @@ ("fs" :> CTL_FS)
    @@ ("net" :> CTL_NET) @@ ("debug" :> CTL_DEBUG) @@ ("hw" :> CTL_HW)
    @@ ("machdep" :> CTL_MACHDEP) @@ ("ddb" :> CTL_DDB) @@ ("vfs" :> CTL_VFS)

\* C1: a write to a target whose changeable flag is false fails locally and
\* issues no kernel call, neither the size probe nor the set.
C1_NotWritableIssuesNoCall ==
    (IsWrite /\ NoEmptySegment /\ parsed.kind = "Ok" /\ ~sysctl_s.changeable)
        => /\ calls = <<>>
           /\ pc = "done" => ret.kind = "Err"

\* C2: a path that stops at an interior node of the schema (it is shorter
\* than the schema requires) resolves to a recoverable error, not a panic.
C2_ShortPathIsError ==
    (Resolved /\ IsPath /\ Segments \in InteriorPaths)
        => parsed.kind = "Err"

\* C3: a path whose segment at depth k matches no child of the interior node
\* reached by the k segments before it resolves to a recoverable error, not
\* a panic, whatever follows that segment.
C3_UnknownSegmentIsError ==
    (Resolved /\ IsPath
       /\ \E k \in 0..(Len(Segments) - 1) :
             /\ Prefix(Segments, k) \in InteriorPaths \ TakesAnySegment
             /\ Prefix(Segments, k + 1) \notin InteriorPaths \cup DeclaredPaths)
        => parsed.kind = "Err"

\* C4: every declared path resolves to a target whose address has as many
\* elements as the path has segments.
C4_DeclaredPathResolves ==
    (Resolved /\ IsPath /\ Segments \in DeclaredPaths)
        => /\ parsed.kind = "Ok"
           /\ Len(sysctl_s.mib) = Len(Segments)

\* C5: a path with segments after the one that reaches a leaf fails; it does
\* not resolve to the leaf's target.
C5_TrailingSegmentsIsError ==
    (Resolved /\ IsPath
       /\ \E p \in DeclaredPaths : IsProperPrefix(p, Segments))
        => parsed.kind = "Err"

\* C6: an input whose name portion has an empty segment fails; it never
\* resolves to a target.
C6_EmptySegmentIsError ==
    (Resolved /\ HasEmptySegment(NamePortion)) => parsed.kind = "Err"

\* C7: an input whose literal value contains '.' or '=' is rejected: it
\* neither panics nor resolves.
C7_DelimiterInValueIsRejected ==
    (Resolved /\ NoEmptySegment /\ Range(ValuePortion) \cap Delimiters # {})
        => parsed.kind = "Err"

\* C8: when resolution fails with a local error, no kernel call is issued at
\* any point of the invocation, and the invocation returns that error.
C8_LocalErrorIssuesNoCall ==
    parsed.kind = "Err"
        => /\ calls = <<>>
           /\ pc = "done"
           /\ ret = parsed

C8_Witness ==
    /\ pc = "done"
    /\ parsed = ResErr("EINVAL")
    /\ ret = ResErr("EINVAL")
    /\ calls = <<>>
    /\ Segments = <<"kern", "nonexistent">>

\* C9: an error returned as a platform error code was preceded by a kernel
\* call of the same invocation.
C9_ErrnoImpliesKernelCall ==
    (pc = "done" /\ IsPath /\ ret.kind = "Err") => calls # <<>>

\* C10: a resolved address has between 1 and CTL_MAXNAME elements and starts
\* with the code of the top-level domain the path's first segment names.
C10_AddressShape ==
    parsed.kind = "Ok"
        => /\ Len(sysctl_s.mib) \in 1..CTL_MAXNAME
           /\ sysctl_s.mib[1] = DomainCode[Segments[1]]

\* the types whose values have no fixed size
VariableLength ==
    {"SysString", "SysStruct", "UInt8Slice", "UInt32Slice", "UInt64Slice",
     "UShortSlice"}

\* C11: on a read of a target whose type is variable-length (a string, a
\* struct or a slice) the first kernel call is a size probe with a null
\* output pointer; the fetch is never the first call.
C11_ProbeBeforeFetch ==
    (accessor = "sysctl_read" /\ IsPath /\ parsed.kind = "Ok"
       /\ sysctl_s.value_type \in VariableLength /\ calls # <<>>)
        => /\ calls[1].phase = "probe"
           /\ calls[1].oldp = "null"

Last(s) == s[Len(s)]

\* C12: when the size probe fails the invocation returns that failure, no
\* fetch or set is issued and the caller's buffers hold what they held; in
\* general every kernel call before the last one succeeded, and the
\* invocation returns Ok exactly when its last call, the fetch, succeeded.
C12_ProbeFailureAborts ==
    /\ (calls # <<>> /\ calls[1].phase = "probe" /\ calls[1].res # "ok")
          => /\ pc = "done"
             /\ ret = ResErr(calls[1].res)
             /\ Len(calls) = 1
             /\ oldbuf \in OldBuffers
             /\ newbuf \in NewBuffers \cup {<<>>}
    /\ \A i \in 1..(Len(calls) - 1) : calls[i].res = "ok"
    /\ (pc = "done" /\ calls # <<>>)
          => /\ ret.kind = "Ok" <=> Last(calls).res = "ok"
             /\ ret.kind = "Err" <=> Last(calls).res # "ok"
             /\ ret.kind = "Err" => ret.errno = Last(calls).res
             /\ ret.kind = "Ok" => Last(calls).phase = "fetch"

C12_Witness ==
    /\ pc = "done"
    /\ accessor = "sysctl_read"
    /\ name = <<"kern", ".", "ostype">>
    /\ Len(calls) = 1
    /\ calls[1].phase = "probe"
    /\ calls[1].res = "ENOMEM"
    /\ ret = ResErr("ENOMEM")
    /\ oldbuf = Fill(BufCap, 0)

\* C13: for a target of a fixed-size scalar type no size probe is issued,
\* and the output length passed in the single kernel call is the byte width
\* of the type (4 for Int32, 8 for Int64).
C13_ScalarLengthIsWidth ==
    (parsed.kind = "Ok" /\ IsPath /\ sysctl_s.value_type \in Scalars
       /\ calls # <<>>)
        => /\ Len(calls) = 1
           /\ calls[1].phase = "fetch"
           /\ calls[1].oldlen = Width(sysctl_s.value_type)

\* C14: round trip.  For a changeable scalar target, when a write of v
\* through the accessor of sysctl_write! succeeded and the next invocation,
\* a read of the same name, succeeds, the read leaves v in its buffer.
C14_RoundTrip ==
    (pc = "done" /\ accessor = "sysctl_read" /\ ret.kind = "Ok"
       /\ prev.accessor = "sysctl_write" /\ prev.kind = "Ok"
       /\ sysctl_s.value_type \in Scalars /\ sysctl_s.changeable)
        => Take(oldbuf, Width(sysctl_s.value_type))
              = Take(prev.newbuf, Width(sysctl_s.value_type))

AssignHostname == <<"kern", ".", "hostname", "=", "myhost">>

\* C15: a write with the input "kern.hostname=myhost" resolves to the
\* changeable string target kern.hostname and issues one call sequence: the
\* size probe of the string first, then the one call that sets, which
\* carries a new value; it returns Ok when the kernel accepted both calls.
C15_WriteHostname ==
    (IsWrite /\ name = AssignHostname /\ Resolved)
        => /\ parsed = SysctlNew(<<CTL_KERN, KERN_HOSTNAME>>, "SysString", TRUE)
           /\ pc = "fetch" => Len(calls) = 1
           /\ calls # <<>>
                 => /\ calls[1].phase = "probe"
                    /\ calls[1].oldp = "null" /\ calls[1].newp = "null"
           /\ pc = "done"
                 => /\ Len(calls) \in 1..2
                    /\ ret.kind = "Ok" <=> \A i \in 1..Len(calls) : calls[i].res = "ok"
                    /\ ret.kind = "Ok" => Len(calls) = 2
           /\ Len(calls) >= 2
                 => /\ calls[2].phase = "fetch"
                    /\ calls[2].mib = <<CTL_KERN, KERN_HOSTNAME>>
                    /\ calls[2].newp # "null"

C15_Witness ==
    /\ accessor = "sysctl_write"
    /\ name = AssignHostname
    /\ pc = "done"
    /\ ret.kind = "Ok"
    /\ Len(calls) = 2
    /\ calls[1].phase = "probe"
    /\ calls[2].phase = "fetch"
    /\ calls[2].newp = "oldp"

\* C16: "kern.ostype" resolves to the address [1, 1], a string, not
\* changeable.
C16_KernOstype ==
    (Resolved /\ name = <<"kern", ".", "ostype">>)
        => parsed = SysctlNew(<<1, 1>>, "SysString", FALSE)

C16_Witness ==
    /\ name = <<"kern", ".", "ostype">>
    /\ pc = "probe"
    /\ sysctl_s.mib = <<CTL_KERN, KERN_OSTYPE>>
    /\ sysctl_s.value_type = "SysString"
    /\ ~sysctl_s.changeable

\* C17: "vm.uvmexp" resolves to the address [2, 4], a struct, not
\* changeable.
C17_VmUvmexp ==
    (Resolved /\ name = <<"vm", ".", "uvmexp">>)
        => parsed = SysctlNew(<<2, 4>>, "SysStruct", FALSE)

C17_Witness ==
    /\ name = <<"vm", ".", "uvmexp">>
    /\ pc = "fetch"
    /\ sysctl_s.mib = <<CTL_VM, VM_UVMEXP>>
    /\ sysctl_s.value_type = "SysStruct"
    /\ ~sysctl_s.changeable

\* C18: decoding the bytes of a string value returns the bytes before the
\* first terminator ("OpenBSD\0" gives "OpenBSD"), so a terminator appended
\* to the input does not change the result.
C18_StringDecodeTruncates ==
    (decoded.kind # "None" /\ value # <<>> /\ Head(value) # 0
       /\ Last(value) = 0)
        => /\ decoded.kind = "Ok"
           /\ decoded.value = UpToNul(value)
           /\ decoded.value = UpToNul(decoded.value \o <<0>>)

\* Vec::dedup_by(|a, b| *a == *b && *b == b'\0') of tests::call_sysctl: a
\* NUL that follows a NUL is dropped
RECURSIVE dedup_by(_)
dedup_by(buf) ==
    IF Len(buf) <= 1 THEN buf
    ELSE IF buf[Len(buf)] = 0 /\ buf[Len(buf) - 1] = 0
         THEN dedup_by(SubSeq(buf, 1, Len(buf) - 1))
         ELSE Append(dedup_by(SubSeq(buf, 1, Len(buf) - 1)), buf[Len(buf)])

\* C19: a read through the accessor of sysctl_read! of a string target,
\* into a zero-filled buffer larger than the value, returns Ok when the
\* kernel accepted its calls and leaves in the buffer the kernel's bytes,
\* terminator included, followed by zeros only; collapsing the run of NULs
\* leaves the value and its terminator.
C19_ReadFillsBuffer ==
    (accessor = "sysctl_read" /\ parsed.kind = "Ok"
       /\ sysctl_s.value_type = "SysString" /\ pc = "done"
       /\ \A i \in 1..Len(calls) : calls[i].res = "ok")
        => /\ ret.kind = "Ok"
           /\ Len(kernel.val) = len
           /\ len < Len(oldbuf)
           /\ Last(kernel.val) = 0
           /\ oldbuf = kernel.val \o Fill(Len(oldbuf) - Len(kernel.val), 0)
           /\ dedup_by(oldbuf) = kernel.val

C19_Witness ==
    /\ accessor = "sysctl_read"
    /\ name = <<"kern", ".", "ostype">>
    /\ pc = "done"
    /\ ret.kind = "Ok"
    /\ kernel.val = <<1, 0>>
    /\ oldbuf = <<1, 0>> \o Fill(BufCap - 2, 0)

\* the `changeable = ...` assignments met on the way down the arms that the
\* labels select, outermost first
RECURSIVE AnnotationsOn(_, _)
AnnotationsOn(table, labels) ==
    IF labels = <<>> THEN <<>>
    ELSE LET a == table[Head(labels)]
             below == IF a.af # <<>> THEN SubSeq(labels, 4, Len(labels))
                      ELSE Tail(labels)
         IN  a.ch \o (IF a.then = "Match" THEN AnnotationsOn(a.sub, below)
                      ELSE <<>>)

\* parse_mib_fs, parse_mib_machdep and parse_mib_ddb pass `true` to
\* Sysctl::new for their whole domain
DomainAnnotation(d) ==
    IF d \in {"fs", "machdep", "ddb"} THEN <<TRUE>> ELSE <<>>

\* the innermost annotation, false when there is none
MostSpecific(annotations) ==
    IF annotations = <<>> THEN FALSE ELSE Last(annotations)

\* C20: the changeable flag of a resolved target is the most specific
\* annotation on its path: the leaf's own, else that of the nearest
\* annotated enclosing subtree, else false.  net.inet.icmp.stats and
\* vfs.ffs.dirhash_mem are not changeable although net.inet and vfs.ffs
\* are annotated changeable.
C20_MostSpecificAnnotation ==
    (parsed.kind = "Ok" /\ IsPath /\ Segments \in DeclaredPaths)
        => /\ sysctl_s.changeable =
                 MostSpecific(DomainAnnotation(Segments[1])
                              \o AnnotationsOn(Domains[Segments[1]], Tail(Segments)))
           /\ Segments \in {<<"net", "inet", "icmp", "stats">>,
                            <<"vfs", "ffs", "dirhash_mem">>}
                 => ~sysctl_s.changeable
           /\ Segments \in {<<"net", "inet", "icmp", "maskrepl">>,
                            <<"vfs", "ffs", "dirhash_dirsize">>}
                 => sysctl_s.changeable

C20_Witness ==
    /\ Segments = <<"net", "inet", "icmp", "stats">>
    /\ parsed.kind = "Ok"
    /\ ~sysctl_s.changeable
    /\ AnnotationsOn(Match_net, Tail(Segments)) = <<TRUE, FALSE>>

\* the positions of the calls of one phase
CallsOf(phase) == {i \in 1..Len(calls) : calls[i].phase = phase}

\* C21: no retry.  One invocation issues at most one size probe and at most
\* one fetch/set, the probe first, and no kernel call follows a kernel call
\* that failed.
C21_NoRetry ==
    /\ Cardinality(CallsOf("probe")) <= 1
    /\ Cardinality(CallsOf("fetch")) <= 1
    /\ CallsOf("probe") \subseteq {1}
    /\ \A i \in 1..Len(calls) : calls[i].res # "ok" => i = Len(calls)
    /\ (calls # <<>> /\ Last(calls).res # "ok") => pc = "done"

C21_Witness ==
    /\ pc = "done"
    /\ Len(calls) = 2
    /\ calls[1].phase = "probe" /\ calls[1].res = "ok"
    /\ calls[2].phase = "fetch" /\ calls[2].res = "EPERM"
    /\ ret = ResErr("EPERM")

\* C22: when a kernel call fails, the invocation returns an error that
\* carries the errno reported for that very call, not one generic code.
C22_ErrnoPreserved ==
    (pc = "done" /\ calls # <<>> /\ Last(calls).res # "ok")
        => /\ ret.kind = "Err"
           /\ ret.errno = Last(calls).res
           /\ ret.errno \in Errnos

C22_Witness ==
    /\ pc = "done"
    /\ Len(calls) = 1
    /\ calls[1].phase = "fetch"
    /\ calls[1].res = "ENOMEM"
    /\ ret.kind = "Err"
    /\ ret.errno = "ENOMEM"

\* C23: the call that fetches passes as output length the size the probe
\* reported, or the width of a scalar, and an output buffer that has at
\* least that many bytes, so the kernel does not write past its end.
C23_FetchWithinBuffer ==
    \A i \in 1..Len(calls) :
        (IsPath /\ calls[i].phase = "fetch" /\ calls[i].oldp # "null")
            => /\ sysctl_s.value_type \in Scalars
                     => calls[i].oldlen = Width(sysctl_s.value_type)
               /\ (i > 1 /\ calls[i - 1].phase = "probe")
                     => calls[i].oldlen = len
               /\ Len(Pointee(calls[i].oldp)) >= calls[i].oldlen

\* C24: a call that sets passes as input length the byte length of the new
\* value (the width of a scalar target, never more than the bytes the
\* caller supplied), and a call that carries no new value, the size probe
\* or a pure read, passes a null input pointer with input length 0.
C24_InputLength ==
    \A i \in 1..Len(calls) :
        IsPath
            => /\ calls[i].phase = "probe" => calls[i].newp = "null"
               /\ calls[i].newp = "null" => calls[i].newlen = 0
               /\ (calls[i].newp # "null" /\ sysctl_s.value_type \in Scalars)
                     => calls[i].newlen = Width(sysctl_s.value_type)
               /\ calls[i].newp # "null"
                     => calls[i].newlen <= Len(Pointee(calls[i].newp))

\* C25: the accessor of sysctl_write!(oldp, newp) hands sysctl_raw its
\* newp as the new value and a null output pointer; the accessor of
\* sysctl_readwrite! hands it oldp as the output buffer and newp as the
\* new value; what the accessor returns is what sysctl_raw returned.
C25_AccessorWiring ==
    /\ (accessor = "sysctl_write" /\ IsPath)
          => (oldp = "null" /\ newp = "newp")
    /\ (accessor = "sysctl_readwrite" /\ IsPath)
          => (oldp = "oldp" /\ newp = "newp")
    /\ \A i \in 1..Len(calls) :
          calls[i].phase = "fetch"
              => (calls[i].oldp = oldp /\ calls[i].newp = newp)

\* the other declared name, and what it resolves to
OtherSegments == split(prev.name)

OtherParsed == parse_mib_str(prev.name)

\* two paths that differ in their last segment only
Siblings(p, q) ==
    /\ Len(p) = Len(q)
    /\ p # q
    /\ Prefix(p, Len(p) - 1) = Prefix(q, Len(q) - 1)

\* C26: resolution is injective on declared names: two different declared
\* paths do not resolve to the same address, and two segment names under
\* the same interior node do not map to the same numeric code.
C26_ResolutionInjective ==
    (parsed.kind = "Ok" /\ IsPath /\ Segments \in DeclaredPaths
       /\ OtherSegments \in DeclaredPaths /\ OtherSegments # Segments
       /\ "" \notin Range(OtherSegments)
       /\ OtherParsed.kind = "Ok")
        => /\ OtherParsed.sysctl.mib # sysctl_s.mib
           /\ Siblings(Segments, OtherSegments)
                 => Last(OtherParsed.sysctl.mib) # Last(sysctl_s.mib)

=============================================================================
